---- MODULE Spec2Model ----
(***************************************************************************)
(* The consolidation pipeline of the cross-domain knowledge-graph backend: *)
(*   schema_validate.light_fix / validate_graph   (SpecFix)                *)
(*   merge.merge_synonyms                         (SpecMerge)              *)
(*   checker.evidence_check / run_check           (SpecCheck, SpecPipe)    *)
(*   neo4j_store.upsert_graph / query_subgraph    (SpecStore)              *)
(*   main.py endpoints, Orchestrator.generate_graph (SpecJob)              *)
(*                                                                         *)
(* Python values are modelled as follows.                                  *)
(*  - A JSON value of a raw draft is a tagged record: [t |-> "none"],      *)
(*    [t |-> "str", v |-> s], [t |-> "num", v |-> n], [t |-> "bool", ...], *)
(*    [t |-> "list", v |-> <<...>>], [t |-> "dict", v |-> f] where f is a  *)
(*    function from the keys that are present to JSON values.              *)
(*  - Text is a TLA+ string; TLC evaluates Len, SubSeq and \o on strings.  *)
(*  - A float in [0,1] is a fixed-point integer with One standing for 1.0. *)
(***************************************************************************)
EXTENDS Integers, Sequences, FiniteSets, TLC

VARIABLES
    pc,          \* position of the driver of the component under check
    graph_dict,  \* light_fix: the caller's draft object (mutated in place)
    draft0,      \* light_fix: the draft as it was when light_fix was called
    fix1,        \* light_fix: result of the first call  [g, fixed]
    fix2,        \* light_fix: result of the call on fix1.g
    defects,     \* number of deviations the extraction collaborator introduced
    in_nodes,    \* merge_synonyms: argument nodes
    in_edges,    \* merge_synonyms: argument edges
    run1,        \* merge_synonyms: result of a run
    run2,        \* merge_synonyms: result of another run on the same input
    ck_graph,    \* run_check: the graph handed to run_check
    ck_out,      \* run_check: the outcome of a run
    ck_out2,     \* run_check: the outcome of another run on the same graph
    store,       \* Neo4jStore: the vertices and relationships of the database
    jobs,        \* upsert_graph: per request, the graph in hand, the next
                 \* statement to run, and the graphs upserted so far
    job,         \* RedisStore: the job record of the request (status, logs, result)
    req          \* the request being served: endpoint, position, values in hand

vars == <<pc, graph_dict, draft0, fix1, fix2, defects,
          in_nodes, in_edges, run1, run2, ck_graph, ck_out, ck_out2,
          store, jobs, job, req>>

fixVars == <<graph_dict, draft0, fix1, fix2, defects>>
mergeVars == <<in_nodes, in_edges, run1, run2>>
checkVars == <<ck_graph, ck_out, ck_out2>>
storeVars == <<store, jobs>>
apiVars == <<job, req>>

\* value of a variable that the specification at hand does not use
Idle == <<>>

\* 1.0 in fixed point (confidence values are multiples of 1/One)
One == 100000

\* most deviations from the complete draft the collaborator introduces
MaxDefects == 2

\* longest node list and longest edge list handed to merge_synonyms
MaxMergeNodes == 3
MaxMergeEdges == 2

-----------------------------------------------------------------------------
(* JSON values and dict helpers *)

JNone == [t |-> "none"]
JStr(s) == [t |-> "str", v |-> s]
JNum(n) == [t |-> "num", v |-> n]
JList(q) == [t |-> "list", v |-> q]
JDict(d) == [t |-> "dict", v |-> d]

IsDict(x) == x.t = "dict"
IsList(x) == x.t = "list"
\* a Python str: a literal string or the hex digest of a hash
IsStr(x) == x.t \in {"str", "sha"}

\* Python truthiness
Truthy(x) ==
    CASE x.t = "none" -> FALSE
      [] x.t = "str"  -> x.v # ""
      [] x.t = "sha"  -> TRUE
      [] x.t = "num"  -> x.v # 0
      [] x.t = "bool" -> x.v
      [] x.t = "list" -> Len(x.v) > 0
      [] x.t = "dict" -> DOMAIN x.v # {}

EmptyDict == [k \in {} |-> JNone]
Has(d, k) == k \in DOMAIN d
\* d.get(k)
Get(d, k) == IF k \in DOMAIN d THEN d[k] ELSE JNone
\* d[k] = v
Put(d, k, v) == [x \in (DOMAIN d) \cup {k} |-> IF x = k THEN v ELSE d[x]]
\* del d[k]
Del(d, k) == [x \in (DOMAIN d) \ {k} |-> d[x]]
\* d.setdefault(k, v)
SetDefault(d, k, v) == IF k \in DOMAIN d THEN d ELSE Put(d, k, v)

RECURSIVE SumSeq(_)
SumSeq(q) == IF q = <<>> THEN 0 ELSE Head(q) + SumSeq(Tail(q))

-----------------------------------------------------------------------------
(* models.py: the schema that validate_graph enforces *)

RelationType == {"related_to", "used_in", "is_a", "explains", "bridges"}

\* a required field of type str
ReqStr(d, k) == Has(d, k) /\ IsStr(d[k])
\* a field of type str | None with default None
OptStr(d, k) == ~Has(d, k) \/ d[k].t = "none" \/ IsStr(d[k])
\* confidence: float = Field(ge=0.0, le=1.0, default=...)
ValidConfidence(d) ==
    ~Has(d, "confidence")
    \/ (d["confidence"].t = "num" /\ d["confidence"].v >= 0 /\ d["confidence"].v <= One)

\* validate_graph(graph_dict)[0]: GraphResult.model_validate succeeds
validate_graph(g) ==
    LET ValidEvidence(ev) ==
            /\ IsDict(ev)
            /\ ReqStr(ev.v, "title")
            /\ ReqStr(ev.v, "snippet")
            /\ OptStr(ev.v, "url")
            /\ OptStr(ev.v, "domain")
        ValidNode(n) ==
            /\ IsDict(n)
            /\ ReqStr(n.v, "id")
            /\ ReqStr(n.v, "name")
            /\ ReqStr(n.v, "domain")
            /\ OptStr(n.v, "definition")
            /\ ValidConfidence(n.v)
        ValidEdge(e) ==
            /\ IsDict(e)
            /\ OptStr(e.v, "id")
            /\ ReqStr(e.v, "source")
            /\ ReqStr(e.v, "target")
            /\ Has(e.v, "relation")
            /\ e.v["relation"].t = "str"
            /\ e.v["relation"].v \in RelationType
            /\ ReqStr(e.v, "explanation")
            /\ Has(e.v, "evidence")
            /\ ValidEvidence(e.v["evidence"])
            /\ ValidConfidence(e.v)
            /\ (~Has(e.v, "checked") \/ e.v["checked"].t = "bool")
            /\ OptStr(e.v, "check_reason")
            /\ (~Has(e.v, "flags")
                \/ (IsList(e.v["flags"])
                    /\ \A i \in 1..Len(e.v["flags"].v) : IsStr(e.v["flags"].v[i])))
        \* CheckerSummary: every counter has a default, each present one is an int
        ValidCheckerSummary(c) ==
            /\ IsDict(c)
            /\ \A k \in DOMAIN c.v : c.v[k].t = "num"
        ValidMeta(m) ==
            /\ IsDict(m)
            /\ ReqStr(m.v, "generated_at")
            /\ ReqStr(m.v, "version")
            /\ Has(m.v, "checker_summary")
            /\ ValidCheckerSummary(m.v["checker_summary"])
    IN
    /\ ReqStr(g, "concept")
    /\ Has(g, "nodes")
    /\ IsList(g["nodes"])
    /\ \A i \in 1..Len(g["nodes"].v) : ValidNode(g["nodes"].v[i])
    /\ Has(g, "edges")
    /\ IsList(g["edges"])
    /\ \A i \in 1..Len(g["edges"].v) : ValidEdge(g["edges"].v[i])
    /\ Has(g, "meta")
    /\ ValidMeta(g["meta"])

-----------------------------------------------------------------------------
(* schema_validate.py: light_fix *)

\* list(g.get(k) or [])
ListOrEmpty(g, k) ==
    IF Truthy(Get(g, k)) /\ IsList(Get(g, k)) THEN g[k].v ELSE <<>>

\* the condition under which light_fix resets flags to []
NeedsFlagsEmptyToo(ee) ==
    ~Has(ee, "flags") \/ ~IsList(ee["flags"]) \/ ~Truthy(ee["flags"])

NeedsFlags(ee) == ~Has(ee, "flags") \/ ~IsList(ee["flags"])

\* the evidence part of the loop body: the completed evidence dict and the
\* number of fixes counted for it
FixEvidence(ee, nodes) ==
    LET \* node_domain.get(tid): the domain of the last node that has a truthy id equal
        \* to tid and a truthy domain, else None
        NodeDomainGet(tid) ==
            LET hits == {i \in 1..Len(nodes) :
                            /\ IsDict(nodes[i])
                            /\ Truthy(Get(nodes[i].v, "id"))
                            /\ Truthy(Get(nodes[i].v, "domain"))
                            /\ nodes[i].v["id"] = tid}
            IN IF hits = {} THEN JNone
               ELSE nodes[CHOOSE i \in hits : \A j \in hits : j <= i].v["domain"]
    IN
    LET ev0 == IF IsDict(Get(ee, "evidence")) THEN ee["evidence"].v ELSE EmptyDict
        ev1 == SetDefault(ev0, "title", JStr(""))
        ev2 == SetDefault(ev1, "snippet", JStr(""))
        ev3 == SetDefault(ev2, "url", JNone)
        tid == IF Truthy(Get(ee, "target")) THEN ee["target"] ELSE JStr("")
        ev4 == SetDefault(ev3, "domain", NodeDomainGet(tid))
    IN [ev |-> ev4,
        n  |-> (IF Has(ev0, "title") THEN 0 ELSE 1)
               + (IF Has(ev0, "snippet") THEN 0 ELSE 1)
               + (IF Has(ev0, "domain") THEN 0 ELSE 1)]

\* one iteration of the edge loop on a dict element e
FixEdge(e, nodes) ==
    LET \* _sha(source, relation, target): the first 12 hex digits of the SHA-1 of
        \* "source|relation|target", kept symbolic (a non-empty str determined by the triple)
        Sha(source, relation, target) ==
            [t |-> "sha", source |-> source, relation |-> relation, target |-> target]
        \* the condition under which light_fix assigns the hashed id
        NeedsId(ee) ==
            /\ ~Truthy(Get(ee, "id"))
            /\ Truthy(Get(ee, "source"))
            /\ Truthy(Get(ee, "target"))
            /\ Truthy(Get(ee, "relation"))
    IN
    LET f1 == IF NeedsFlags(e) THEN Put(e, "flags", JList(<<>>)) ELSE e
        f2 == SetDefault(f1, "check_reason", JNone)
        fe == FixEvidence(f2, nodes)
        f3 == Put(f2, "evidence", JDict(fe.ev))
        f4 == IF NeedsId(f3)
              THEN Put(f3, "id", Sha(f3["source"], f3["relation"], f3["target"]))
              ELSE f3
    IN [ee |-> JDict(f4),
        n  |-> (IF NeedsFlags(e) THEN 1 ELSE 0) + fe.n
               + (IF NeedsId(f3) THEN 1 ELSE 0)]

\* dict(g.get("meta") or {}) raises when meta is truthy and not a mapping
light_fix_raises(gd) ==
    LET m == Get(gd, "meta") IN Truthy(m) /\ ~IsDict(m)

\* light_fix(graph_dict, errors) = (g, fixed); errors is not read
light_fix(gd) ==
    LET g1 == SetDefault(SetDefault(SetDefault(SetDefault(gd,
                  "concept", JStr("Unknown")),
                  "nodes", JList(<<>>)),
                  "edges", JList(<<>>)),
                  "meta", JDict(EmptyDict))
        top == Cardinality({"concept", "nodes", "edges", "meta"} \ DOMAIN gd)
        m0 == IF Truthy(g1["meta"]) THEN g1["meta"].v ELSE EmptyDict
        \* the three meta counters test membership after setdefault: always 0
        meta == SetDefault(SetDefault(SetDefault(m0,
                  "generated_at", JStr("")),
                  "version", JStr("v1")),
                  "checker_summary", JDict(EmptyDict))
        nodes == ListOrEmpty(g1, "nodes")
        kept == SelectSeq(ListOrEmpty(g1, "edges"), IsDict)
        fx == [i \in 1..Len(kept) |-> FixEdge(kept[i].v, nodes)]
        g2 == Put(Put(g1, "meta", JDict(meta)),
                  "edges", JList([i \in 1..Len(kept) |-> fx[i].ee]))
    IN [g |-> g2, fixed |-> top + SumSeq([i \in 1..Len(kept) |-> fx[i].n])]

-----------------------------------------------------------------------------
(* SpecFix: the extraction collaborator hands a draft to light_fix.  The     *)
(* draft starts complete and schema-valid and deviates from that in at most  *)
(* MaxDefects places: a key left out, or a value of the wrong shape.         *)

BaseDraft ==
    LET JBool(b) == [t |-> "bool", v |-> b]
        BaseNode(id, name, domain) ==
            JDict([id |-> JStr(id), name |-> JStr(name), domain |-> JStr(domain),
                   definition |-> JNone, confidence |-> JNum(75000)])
        BaseEdge(id, source, target, relation) ==
            JDict([id |-> JStr(id), source |-> JStr(source), target |-> JStr(target),
                   relation |-> JStr(relation), explanation |-> JStr("because"),
                   evidence |-> JDict([title |-> JStr("T"), snippet |-> JStr("S"),
                                       url |-> JNone, domain |-> JStr("CS")]),
                   confidence |-> JNum(70000), checked |-> JBool(TRUE),
                   check_reason |-> JNone, flags |-> JList(<<>>)])
    IN
    [concept |-> JStr("entropy"),
     nodes |-> JList(<<BaseNode("n1", "Entropy", "Core"), BaseNode("n2", "KL", "CS")>>),
     edges |-> JList(<<BaseEdge("e1", "n1", "n2", "is_a"),
                       BaseEdge("e2", "n2", "n1", "explains")>>),
     meta |-> JDict([generated_at |-> JStr("t0"), version |-> JStr("v1"),
                     checker_summary |-> JDict(EmptyDict)])]

EdgesOf(g) == IF Has(g, "edges") /\ IsList(g["edges"]) THEN g["edges"].v ELSE <<>>
NodesOf(g) == IF Has(g, "nodes") /\ IsList(g["nodes"]) THEN g["nodes"].v ELSE <<>>

WithEdge(g, i, e) == Put(g, "edges", JList([g["edges"].v EXCEPT ![i] = e]))
Deviate(g) ==
    /\ pc = "draft"
    /\ defects < MaxDefects
    /\ graph_dict' = g
    /\ defects' = defects + 1
    /\ UNCHANGED <<pc, draft0, fix1, fix2, mergeVars, checkVars, storeVars, apiVars>>

DropTopKey == \E k \in DOMAIN graph_dict : Deviate(Del(graph_dict, k))

SetTopValue ==
    LET \* wrong-shaped values under a top-level key
        TopOddValues ==
            {<<"nodes", JNone>>, <<"edges", JNone>>, <<"meta", JNone>>, <<"meta", JStr("bad")>>}
    IN
    \E kv \in TopOddValues :
        Has(graph_dict, kv[1]) /\ Deviate(Put(graph_dict, kv[1], kv[2]))

DropMetaKey ==
    /\ Has(graph_dict, "meta") /\ IsDict(graph_dict["meta"])
    /\ \E k \in DOMAIN graph_dict["meta"].v :
        Deviate(Put(graph_dict, "meta", JDict(Del(graph_dict["meta"].v, k))))

DropNodeKey ==
    LET WithNode(g, i, n) == Put(g, "nodes", JList([g["nodes"].v EXCEPT ![i] = n]))
    IN
    \E i \in 1..Len(NodesOf(graph_dict)) :
        LET n == NodesOf(graph_dict)[i] IN
        /\ IsDict(n)
        /\ \E k \in DOMAIN n.v \cap {"id", "domain", "confidence"} :
            Deviate(WithNode(graph_dict, i, JDict(Del(n.v, k))))

DropEdgeKey ==
    \E i \in 1..Len(EdgesOf(graph_dict)) :
        LET e == EdgesOf(graph_dict)[i] IN
        /\ IsDict(e)
        /\ \E k \in DOMAIN e.v : Deviate(WithEdge(graph_dict, i, JDict(Del(e.v, k))))

SetEdgeValue ==
    LET \* wrong-shaped or unusual values the collaborator may put under a key of an edge
        EdgeOddValues ==
            {<<"flags", JNone>>, <<"flags", JList(<<JStr("seen")>>)>>,
             <<"id", JNone>>, <<"id", JStr("")>>,
             <<"evidence", JStr("none")>>,
             <<"relation", JStr("causes")>>,
             <<"source", JStr("")>>,
             <<"target", JStr("n9")>>,
             <<"confidence", JNum(One + 50000)>>}
    IN
    \E i \in 1..Len(EdgesOf(graph_dict)) :
        LET e == EdgesOf(graph_dict)[i] IN
        /\ IsDict(e)
        /\ \E kv \in EdgeOddValues :
            Deviate(WithEdge(graph_dict, i, JDict(Put(e.v, kv[1], kv[2]))))

DropEvidenceKey ==
    \E i \in 1..Len(EdgesOf(graph_dict)) :
        LET e == EdgesOf(graph_dict)[i] IN
        /\ IsDict(e) /\ IsDict(Get(e.v, "evidence"))
        /\ \E k \in DOMAIN e.v["evidence"].v :
            Deviate(WithEdge(graph_dict, i,
                JDict(Put(e.v, "evidence", JDict(Del(e.v["evidence"].v, k))))))

\* an element of the edges list that is not an object
MalformEdge ==
    \E i \in 1..Len(EdgesOf(graph_dict)) :
        /\ IsDict(EdgesOf(graph_dict)[i])
        /\ Deviate(WithEdge(graph_dict, i, JStr("oops")))

\* the caller runs light_fix(graph_dict, errors)
LightFix ==
    LET \* the caller's object after the call: ev is the evidence dict of the input
        \* edge itself (dict(e) is a shallow copy), so its keys are filled in place
        MutatedInput(gd) ==
            IF ~(Has(gd, "edges") /\ IsList(gd["edges"])) THEN gd
            ELSE LET nodes == ListOrEmpty(SetDefault(gd, "nodes", JList(<<>>)), "nodes")
                     es == gd["edges"].v
                     fill(e) == IF IsDict(e) /\ IsDict(Get(e.v, "evidence"))
                                THEN JDict(Put(e.v, "evidence",
                                         JDict(FixEvidence(e.v, nodes).ev)))
                                ELSE e
                 IN Put(gd, "edges", JList([i \in 1..Len(es) |-> fill(es[i])]))
    IN
    /\ pc = "draft"
    /\ draft0' = graph_dict
    /\ IF light_fix_raises(graph_dict)
       THEN /\ pc' = "raised"
            /\ UNCHANGED <<graph_dict, fix1>>
       ELSE /\ pc' = "fixed1"
            /\ fix1' = light_fix(graph_dict)
            /\ graph_dict' = MutatedInput(graph_dict)
    /\ UNCHANGED <<fix2, defects, mergeVars, checkVars, storeVars, apiVars>>

\* the caller runs light_fix again, on the draft the first call returned
LightFixAgain ==
    /\ pc = "fixed1"
    /\ ~light_fix_raises(fix1.g)
    /\ pc' = "fixed2"
    /\ fix2' = light_fix(fix1.g)
    /\ UNCHANGED <<graph_dict, draft0, fix1, defects, mergeVars, checkVars, storeVars, apiVars>>

InitFix ==
    /\ pc = "draft"
    /\ graph_dict = BaseDraft
    /\ draft0 = Idle
    /\ fix1 = Idle
    /\ fix2 = Idle
    /\ defects = 0
    /\ in_nodes = Idle /\ in_edges = Idle /\ run1 = Idle /\ run2 = Idle
    /\ ck_graph = Idle /\ ck_out = Idle /\ ck_out2 = Idle
    /\ store = Idle /\ jobs = Idle /\ job = Idle /\ req = Idle

NextFix ==
    \/ DropTopKey
    \/ SetTopValue
    \/ DropMetaKey
    \/ DropNodeKey
    \/ DropEdgeKey
    \/ SetEdgeValue
    \/ DropEvidenceKey
    \/ MalformEdge
    \/ LightFix
    \/ LightFixAgain

SpecFix == InitFix /\ [][NextFix]_vars

-----------------------------------------------------------------------------
(* Claims about light_fix *)

\* C1 (as claimed): for every draft that validate_graph accepts, light_fix
\* returns fixedCount = 0 and a draft equal to the one it was given.
C1_ValidDraftUnchanged ==
    (pc = "fixed1" /\ validate_graph(draft0))
        => (fix1.fixed = 0 /\ fix1.g = draft0)

\* C2: whenever light_fix succeeds on a draft, a second call on its own output
\* returns fixedCount = 0 and the same draft.
C2_RepairIdempotent ==
    pc = "fixed2" => (fix2.fixed = 0 /\ fix2.g = fix1.g)

\* C2 witness: the first call repaired a schema-invalid draft (it counted fixes
\* and changed the draft) and the second call has run.
C2_Witness ==
    /\ pc = "fixed2"
    /\ ~validate_graph(draft0)
    /\ fix1.fixed > 1
    /\ fix1.g # draft0
    /\ fix2.fixed = 0

\* C3 (as claimed): the repaired draft has as many nodes and as many edges as
\* the draft it was given, in the same order (element i of the result is the
\* repair of element i of the input).
C3_NothingDeleted ==
    pc = "fixed1" =>
        /\ NodesOf(fix1.g) = NodesOf(draft0)
        /\ Len(EdgesOf(fix1.g)) = Len(EdgesOf(draft0))
        /\ \A i \in 1..Len(EdgesOf(draft0)) :
               IsDict(EdgesOf(draft0)[i]) =>
                   EdgesOf(fix1.g)[i] = FixEdge(EdgesOf(draft0)[i].v, NodesOf(draft0)).ee

-----------------------------------------------------------------------------
(* Text helpers: Python str methods and the regular expressions of merge.py  *)
(* and checker.py, on ASCII text (the CJK range U+4E00..U+9FFF of the   *)
(* character class is not exercised).                                        *)

Char(s, i) == SubSeq(s, i, i)

LowerLetters == "abcdefghijklmnopqrstuvwxyz"
Digits == "0123456789"

InStr(c, alphabet) == \E i \in 1..Len(alphabet) : Char(alphabet, i) = c

\* str.lower()
RECURSIVE Lower(_)
Lower(s) ==
    LET UpperLetters == "ABCDEFGHIJKLMNOPQRSTUVWXYZ"
        LowerChar(c) ==
            IF InStr(c, UpperLetters)
            THEN Char(LowerLetters, CHOOSE i \in 1..Len(UpperLetters) : Char(UpperLetters, i) = c)
            ELSE c
    IN
    IF Len(s) <= 1 THEN LowerChar(s)
    ELSE LET h == Len(s) \div 2
         IN Lower(SubSeq(s, 1, h)) \o Lower(SubSeq(s, h + 1, Len(s)))

\* whitespace as str.strip() and \s see it
IsSpace(c) == c \in {" ", "\n", "\t"}

RECURSIVE LStrip(_)
LStrip(s) == IF s # "" /\ IsSpace(Char(s, 1)) THEN LStrip(Tail(s)) ELSE s

RECURSIVE RStrip(_)
RStrip(s) ==
    IF s # "" /\ IsSpace(Char(s, Len(s))) THEN RStrip(SubSeq(s, 1, Len(s) - 1)) ELSE s

\* str.strip()
Strip(s) == RStrip(LStrip(s))

\* a in b
Contains(b, a) ==
    \E i \in 1..(Len(b) - Len(a) + 1) : SubSeq(b, i, i + Len(a) - 1) = a

\* re.sub(r"\(.*?\)", "", s): each "(" that a ")" follows with no newline in
\* between is removed together with everything up to the nearest such ")"
RECURSIVE StripParens(_)
StripParens(s) ==
    IF \A i \in 1..Len(s) : Char(s, i) # "(" THEN s
    ELSE LET n == Len(s)
             i == CHOOSE i \in 1..n :
                      Char(s, i) = "(" /\ \A m \in 1..(i - 1) : Char(s, m) # "("
         IN IF \E j \in (i + 1)..n :
                  /\ Char(s, j) = ")"
                  /\ \A m \in (i + 1)..j : Char(s, m) # "\n"
            THEN LET j == CHOOSE j \in (i + 1)..n :
                             /\ Char(s, j) = ")"
                             /\ \A m \in (i + 1)..(j - 1) : Char(s, m) # ")"
                 IN SubSeq(s, 1, i - 1) \o StripParens(SubSeq(s, j + 1, n))
            ELSE SubSeq(s, 1, i) \o StripParens(SubSeq(s, i + 1, n))

\* re.sub(r"[^a-z0-9U+4E00-U+9FFF]+", " ", s): every maximal run of other
\* characters becomes one space
RECURSIVE SquashNonWord(_)
SquashNonWord(s) ==
    LET \* [a-z0-9U+4E00-U+9FFF]
        IsWordChar(c) == InStr(c, LowerLetters) \/ InStr(c, Digits)
    IN
    IF s = "" THEN ""
    ELSE LET n == Len(s)
             w == IsWordChar(Char(s, 1))
             k == CHOOSE k \in 1..n :
                      /\ \A m \in 1..k : IsWordChar(Char(s, m)) = w
                      /\ (k = n \/ IsWordChar(Char(s, k + 1)) # w)
         IN (IF w THEN SubSeq(s, 1, k) ELSE " ") \o SquashNonWord(SubSeq(s, k + 1, n))

\* re.sub(r"\s+", " ", s)
RECURSIVE SquashSpace(_)
SquashSpace(s) ==
    IF s = "" THEN ""
    ELSE LET n == Len(s)
             w == IsSpace(Char(s, 1))
             k == CHOOSE k \in 1..n :
                      /\ \A m \in 1..k : IsSpace(Char(s, m)) = w
                      /\ (k = n \/ IsSpace(Char(s, k + 1)) # w)
         IN (IF w THEN " " ELSE SubSeq(s, 1, k)) \o SquashSpace(SubSeq(s, k + 1, n))

-----------------------------------------------------------------------------
(* merge.py *)

_normalize_name(name) ==
    LET \* _ABBREV.get(s, s)
        Abbrev(s) ==
            CASE s = "nn" -> "neural network"
              [] s = "ml" -> "machine learning"
              [] s = "dl" -> "deep learning"
              [] s = "kl divergence" -> "kullback leibler divergence"
              [] OTHER -> s
    IN
    Abbrev(Strip(SquashSpace(SquashNonWord(StripParens(Lower(Strip(name)))))))

\* the key as the specification words it: (domain, normalize(name))
_k_domain_as_is(name, domain) == domain \o "::" \o _normalize_name(name)

\* the names and domains the extraction collaborator uses for nodes
NodeNames == {"Neural Network", "neural network (NN)", "NN", "Entropy", "Heat"}
NodeDomains == {"CS", "cs", "Physics", "Core"}

\* _k and the specification's key on those names and domains, computed once
RECURSIVE KeysOf(_)
KeysOf(S) ==
    LET _k(name, domain) == Lower(domain) \o "::" \o _normalize_name(name)
    IN
    IF S = {} THEN <<>>
    ELSE LET nd == CHOOSE x \in S : TRUE
         IN (nd :> _k(nd[1], nd[2])) @@ KeysOf(S \ {nd})

RECURSIVE KeysAsIsOf(_)
KeysAsIsOf(S) ==
    IF S = {} THEN <<>>
    ELSE LET nd == CHOOSE x \in S : TRUE
         IN (nd :> _k_domain_as_is(nd[1], nd[2])) @@ KeysAsIsOf(S \ {nd})

KeyTable == KeysOf(NodeNames \X NodeDomains)
KeyAsIsTable == KeysAsIsOf(NodeNames \X NodeDomains)

\* max(0.0, min(1.0, x))
Clamp01(x) == IF x < 0 THEN 0 ELSE IF x > One THEN One ELSE x

Range(q) == {q[i] : i \in 1..Len(q)}

\* an insertion-ordered dict is a sequence of entries [k, v]
HasKey(d, k) == \E i \in 1..Len(d) : d[i].k = k
IndexOf(d, k) == CHOOSE i \in 1..Len(d) : d[i].k = k
\* the orders in which a set of flags can be listed: the iteration order of a
\* Python set of str follows the per-process string hash (PYTHONHASHSEED)
FlagOrders ==
    LET \* the strings that occur as flags in a merge run
        MergeFlags == {"duplicate", "conflict"}
    IN
              {o \in [1..Cardinality(MergeFlags) -> MergeFlags] :
                  \A f \in MergeFlags : \E i \in DOMAIN o : o[i] = f}

\* Edge.ensure_id: the first 12 hex digits of the SHA-1 of
\* "source|relation|target", kept symbolic
ensure_id(e) ==
    IF e.id # "" THEN e
    ELSE [e EXCEPT !.id = "sha1:" \o e.source \o "|" \o e.relation \o "|" \o e.target]

\* kept after the loop body has handled node n: confidence decides
KeptAfterByConfidence(kept, key, n) ==
    IF ~HasKey(kept, key) THEN Append(kept, [k |-> key, v |-> n])
    ELSE IF n.confidence > kept[IndexOf(kept, key)].v.confidence
         THEN [kept EXCEPT ![IndexOf(kept, key)].v = n]
         ELSE kept

\* kept after the loop body has handled node n
KeptAfter(kept, key, n) ==
    IF ~HasKey(kept, key) THEN Append(kept, [k |-> key, v |-> n]) ELSE kept

RECURSIVE NodeLoop(_, _)
NodeLoop(st, nodes) ==
    LET \* one iteration of the node loop
        NodeStep(n) ==
            LET key == KeyTable[<<n.name, n.domain>>]
                kept2 == KeptAfter(st.kept, key, n)
            IN [kept |-> kept2,
                nodes_merged |-> st.nodes_merged + (IF HasKey(st.kept, key) THEN 1 ELSE 0),
                id_map |-> Put(st.id_map, n.id, kept2[IndexOf(kept2, key)].v.id)]
    IN
    IF nodes = <<>> THEN st ELSE NodeLoop(NodeStep(Head(nodes)), Tail(nodes))

\* the test that keeps the edge already stored: strict comparison
KeepsCurrentStrict(cur, e) == cur.confidence > e.confidence

\* the test that keeps the edge already stored
KeepsCurrent(cur, e) == cur.confidence >= e.confidence

RECURSIVE EdgeLoop(_, _, _, _)
EdgeLoop(st, edges, id_map, ord) ==
    LET \* list(S) for a set S of flags, under the iteration order ord
        SetToList(S) == SelectSeq(ord, LAMBDA f : f \in S)
        \* the survivor of a duplicate pair, with the loser's snippet appended and the
        \* flag "duplicate" added through a set
        Absorb(win, lose) ==
            [win EXCEPT
                !.evidence.snippet =
                    IF lose.evidence.snippet # "" /\ ~Contains(@, lose.evidence.snippet)
                    THEN Strip(@) \o "\n" \o Strip(lose.evidence.snippet)
                    ELSE @,
                !.flags = SetToList(Range(@) \cup {"duplicate"})]
        \* one iteration of the edge loop
        EdgeStep(e0) ==
            LET s == IF e0.source \in DOMAIN id_map THEN id_map[e0.source] ELSE e0.source
                t == IF e0.target \in DOMAIN id_map THEN id_map[e0.target] ELSE e0.target
                e == ensure_id([e0 EXCEPT !.source = s, !.target = t])
                k == <<s, t, e.relation>>
            IN IF ~HasKey(st.out_edges, k)
               THEN [st EXCEPT !.out_edges = Append(@, [k |-> k, v |-> e])]
               ELSE LET i == IndexOf(st.out_edges, k)
                        cur == st.out_edges[i].v
                    IN [out_edges |-> [st.out_edges EXCEPT ![i].v =
                                          IF KeepsCurrent(cur, e) THEN Absorb(cur, e)
                                          ELSE Absorb(e, cur)],
                        edges_removed |-> st.edges_removed + 1]
    IN
    IF edges = <<>> THEN st
    ELSE EdgeLoop(EdgeStep(Head(edges)), Tail(edges), id_map, ord)

InConflict(out, i) ==
    LET \* by_pair[(s, t)]: the relations of the stored edges from s to t
        RelsOfPair(s, t) ==
            {out[p].k[3] : p \in {j \in 1..Len(out) : out[j].k[1] = s /\ out[j].k[2] = t}}
    IN Cardinality(RelsOfPair(out[i].k[1], out[i].k[2])) > 1

\* the body of the conflict loop with the flag appended unconditionally
ConflictMarkAlways(e) ==
    [e EXCEPT !.flags = Append(@, "conflict"),
              !.confidence = Clamp01((@ * 8) \div 10)]

\* the body of the conflict loop for one edge
ConflictMark(e) ==
    [e EXCEPT !.flags = IF "conflict" \in Range(@) THEN @ ELSE Append(@, "conflict"),
              !.confidence = Clamp01((@ * 8) \div 10)]

\* merge_synonyms(nodes, edges) in a process whose sets of flags iterate in
\* the order ord
merge_synonyms(nodes, edges, ord) ==
    LET Values(d) == [i \in 1..Len(d) |-> d[i].v]
        ConflictPass(out) ==
            [i \in 1..Len(out) |->
                IF InConflict(out, i) THEN [out[i] EXCEPT !.v = ConflictMark(@)] ELSE out[i]]
    IN
    LET ns == NodeLoop([kept |-> <<>>, nodes_merged |-> 0,
                        id_map |-> [x \in {} |-> ""]], nodes)
        es == EdgeLoop([out_edges |-> <<>>, edges_removed |-> 0], edges, ns.id_map, ord)
        out == es.out_edges
    IN [nodes |-> Values(ns.kept),
        edges |-> Values(ConflictPass(out)),
        stats |-> [nodes_merged |-> ns.nodes_merged,
                   edges_removed |-> es.edges_removed,
                   conflicts_flagged |->
                       Cardinality({i \in 1..Len(out) :
                           InConflict(out, i) /\ "conflict" \notin Range(out[i].v.flags)})]]

-----------------------------------------------------------------------------
(* SpecMerge: the extraction collaborator supplies a node list and an edge   *)
(* list, and merge_synonyms runs on them twice (two generation runs of the   *)
(* same input, each in a process with its own string hash seed).             *)

MkNode(id, name, domain, confidence) ==
    [id |-> id, name |-> name, domain |-> domain, definition |-> "",
     confidence |-> confidence]

\* id = "" stands for id = None: ensure_id treats both alike
MkEdge(source, target, relation, confidence, snippet, flags) ==
    [id |-> "", source |-> source, target |-> target, relation |-> relation,
     explanation |-> "", evidence |-> [title |-> "T", snippet |-> snippet,
                                       url |-> "", domain |-> ""],
     confidence |-> confidence, checked |-> TRUE, check_reason |-> "",
     flags |-> flags]

\* nodes the collaborator may emit: three spellings of one concept (the third
\* in a domain spelled in another case), and two nodes that reuse an id
NodePool ==
    {MkNode("a", "Neural Network", "CS", 75000),
     MkNode("b", "neural network (NN)", "CS", 90000),
     MkNode("b", "NN", "cs", 60000),
     MkNode("c", "Entropy", "Physics", 80000),
     MkNode("b", "Entropy", "Physics", 85000)}

\* edges the collaborator may emit; "zz" is the id of no node
EdgePool ==
    {MkEdge(st[1], st[2], rel, pr[1], pr[2], pr[3]) :
        st \in {<<"a", "c">>, <<"b", "c">>},
        rel \in {"is_a", "explains"},
        pr \in {<<50000, "b", <<>>>>, <<70000, "ab", <<"conflict">>>>}}
    \cup {MkEdge("a", "c", "is_a", 50000, " c", <<>>),
          MkEdge("a", "zz", "is_a", 50000, "", <<>>)}

\* the explanation of the i-th edge of the input names its position
Label(i) == "x" \o Char(Digits, i + 1)
PosOf(e) == CHOOSE i \in 1..Len(Digits) - 1 : Label(i) = e.explanation

AddNode ==
    /\ pc = "input"
    /\ Len(in_nodes) < MaxMergeNodes
    /\ \E n \in NodePool \ Range(in_nodes) : in_nodes' = Append(in_nodes, n)
    /\ UNCHANGED <<pc, in_edges, run1, run2, fixVars, checkVars, storeVars, apiVars>>

AddEdge ==
    /\ pc = "input"
    /\ Len(in_edges) < MaxMergeEdges
    /\ \E e \in EdgePool :
        in_edges' = Append(in_edges, [e EXCEPT !.explanation = Label(Len(in_edges) + 1)])
    /\ UNCHANGED <<pc, in_nodes, run1, run2, fixVars, checkVars, storeVars, apiVars>>

Merge ==
    /\ pc = "input"
    /\ pc' = "merged"
    /\ \E ord \in FlagOrders : run1' = merge_synonyms(in_nodes, in_edges, ord)
    /\ UNCHANGED <<in_nodes, in_edges, run2, fixVars, checkVars, storeVars, apiVars>>

MergeAgain ==
    /\ pc = "merged"
    /\ pc' = "merged2"
    /\ \E ord \in FlagOrders : run2' = merge_synonyms(in_nodes, in_edges, ord)
    /\ UNCHANGED <<in_nodes, in_edges, run1, fixVars, checkVars, storeVars, apiVars>>

InitMerge ==
    /\ pc = "input"
    /\ in_nodes = <<>>
    /\ in_edges = <<>>
    /\ run1 = Idle
    /\ run2 = Idle
    /\ graph_dict = Idle /\ draft0 = Idle /\ fix1 = Idle /\ fix2 = Idle /\ defects = 0
    /\ ck_graph = Idle /\ ck_out = Idle /\ ck_out2 = Idle
    /\ store = Idle /\ jobs = Idle /\ job = Idle /\ req = Idle

NextMerge == AddNode \/ AddEdge \/ Merge \/ MergeAgain

SpecMerge == InitMerge /\ [][NextMerge]_vars

-----------------------------------------------------------------------------
(* Claims about merge_synonyms.  They are stated on the input lists, without *)
(* reference to the loops of the implementation.                             *)

NodeIdx == 1..Len(in_nodes)
Key(i) == KeyTable[<<in_nodes[i].name, in_nodes[i].domain>>]
KeyAsIs(i) == KeyAsIsTable[<<in_nodes[i].name, in_nodes[i].domain>>]

\* node i is dropped: an earlier node has its key
Dropped(i) == \E j \in 1..(i - 1) : Key(j) = Key(i)
DroppedAsIs(i) == \E j \in 1..(i - 1) : KeyAsIs(j) = KeyAsIs(i)
\* the first node with the key of node i
First(i) == CHOOSE j \in 1..i : Key(j) = Key(i) /\ \A m \in 1..(j - 1) : Key(m) # Key(i)
FirstAsIs(i) ==
    CHOOSE j \in 1..i : KeyAsIs(j) = KeyAsIs(i) /\ \A m \in 1..(j - 1) : KeyAsIs(m) # KeyAsIs(i)

\* out is the subsequence of in_nodes at the positions in keep
IsSubsequenceAt(out, keep) ==
    /\ Len(out) = Cardinality(keep)
    /\ \A i \in keep : out[Cardinality({j \in keep : j <= i})] = in_nodes[i]

\* the id an edge endpoint x is rewritten to: when input nodes carry the id x,
\* the id of the survivor of the last of them
Remap(x) ==
    LET carriers == {i \in NodeIdx : in_nodes[i].id = x}
    IN IF carriers = {} THEN x
       ELSE in_nodes[First(CHOOSE i \in carriers : \A j \in carriers : j <= i)].id

EdgeIdx == 1..Len(in_edges)
\* the identity (source, target, relation) of input edge p after id-remapping
EKey(p) == <<Remap(in_edges[p].source), Remap(in_edges[p].target), in_edges[p].relation>>
OutKey(e) == <<e.source, e.target, e.relation>>
\* the input edges that share the identity of input edge p
Group(p) == {q \in EdgeIdx : EKey(q) = EKey(p)}
Count(q, x) == Cardinality({i \in 1..Len(q) : q[i] = x})

\* C5: after id-remapping exactly one edge survives per (source, target,
\* relation): the one of highest confidence, the earliest of these on a tie.
\* With more than one edge for the key the survivor is flagged "duplicate",
\* and the snippet of every loser is, unless empty, part of the survivor's
\* snippet: appended (stripped, after a newline) unless it already was a
\* substring.
C5_HighestConfidenceSurvives ==
    pc = "merged" =>
        LET out == run1.edges IN
        /\ \A o1, o2 \in 1..Len(out) : OutKey(out[o1]) = OutKey(out[o2]) => o1 = o2
        /\ {OutKey(out[o]) : o \in 1..Len(out)} = {EKey(p) : p \in EdgeIdx}
        /\ run1.stats.edges_removed = Len(in_edges) - Len(out)
        /\ \A o \in 1..Len(out) :
             LET e == out[o]
                 w == PosOf(e)
                 sn(p) == in_edges[p].evidence.snippet
             IN /\ OutKey(e) = EKey(w)
                /\ \A p \in Group(w) :
                     /\ in_edges[p].confidence <= in_edges[w].confidence
                     /\ in_edges[p].confidence = in_edges[w].confidence => w <= p
                /\ ("duplicate" \in Range(e.flags)) = (Cardinality(Group(w)) > 1)
                /\ Cardinality(Group(w)) = 1 => e.evidence.snippet = sn(w)
                /\ \A p \in Group(w) \ {w} :
                     /\ sn(p) = "" \/ Contains(e.evidence.snippet, Strip(sn(p)))
                     /\ Cardinality(Group(w)) = 2 =>
                          e.evidence.snippet =
                              IF sn(p) # "" /\ ~Contains(sn(w), sn(p))
                              THEN Strip(sn(w)) \o "\n" \o Strip(sn(p))
                              ELSE sn(w)

\* C5 witness: a later edge of strictly higher confidence replaced the first
\* edge of its key and took over its snippet.
C5_Witness ==
    /\ pc = "merged"
    /\ \E o \in 1..Len(run1.edges) :
        LET e == run1.edges[o]
            w == PosOf(e)
        IN /\ \E p \in Group(w) : p < w /\ in_edges[p].confidence < in_edges[w].confidence
           /\ "duplicate" \in Range(e.flags)
           /\ e.evidence.snippet # in_edges[w].evidence.snippet

\* the relations of the surviving edges between the endpoints of e
OutRels(e) ==
    {run1.edges[q].relation :
        q \in {r \in 1..Len(run1.edges) :
                  run1.edges[r].source = e.source /\ run1.edges[r].target = e.target}}

\* C6: a surviving edge of a (source, target) pair that carries more than one
\* relation has the flag "conflict" exactly once and 0.8 times the confidence
\* it had before the conflict pass; a surviving edge of a pair with a single
\* relation has the flags and the confidence it had before.
C6_ConflictFlaggedOnce ==
    pc = "merged" =>
        \A o \in 1..Len(run1.edges) :
            LET e == run1.edges[o]
                w == in_edges[PosOf(e)]
            IN IF Cardinality(OutRels(e)) > 1
               THEN /\ Count(e.flags, "conflict") = 1
                    /\ e.confidence = (w.confidence * 8) \div 10
               ELSE /\ Count(e.flags, "conflict") = Count(w.flags, "conflict")
                    /\ e.confidence = w.confidence

\* C6 witness: two relations between one pair, one of the edges carried
\* "conflict" on input; both are flagged once and scaled.
C6_Witness ==
    /\ pc = "merged"
    /\ \E o1, o2 \in 1..Len(run1.edges) :
        LET e1 == run1.edges[o1]
            e2 == run1.edges[o2]
        IN /\ e1.source = e2.source /\ e1.target = e2.target
           /\ e1.relation # e2.relation
           /\ "conflict" \in Range(in_edges[PosOf(e1)].flags)
           /\ "conflict" \notin Range(in_edges[PosOf(e2)].flags)
           /\ Count(e1.flags, "conflict") = 1 /\ Count(e2.flags, "conflict") = 1
           /\ e1.confidence = 56000 /\ e2.confidence = 40000

\* C7 (as claimed): the source and the target of every surviving edge are ids
\* of nodes of the returned node list.
C7_EndpointsExist ==
    pc = "merged" =>
        \A o \in 1..Len(run1.edges) :
            /\ run1.edges[o].source \in {run1.nodes[i].id : i \in 1..Len(run1.nodes)}
            /\ run1.edges[o].target \in {run1.nodes[i].id : i \in 1..Len(run1.nodes)}

\* C8 (as claimed): two runs on the same ordered lists return the same nodes,
\* the same edges (confidence, snippet, flags) and the same MergeStats.
C8_RunsAgree ==
    pc = "merged2" => run1 = run2

-----------------------------------------------------------------------------
(* checker.py *)

\* most edges of a graph handed to run_check
MaxCheckEdges == 2

\* _norm: _normalize_name without the leading strip and the abbreviation table
_norm(s) == Strip(SquashSpace(SquashNonWord(StripParens(Lower(s)))))

\* s.split(" ")
RECURSIVE SplitSp(_)
SplitSp(s) ==
    IF \A i \in 1..Len(s) : Char(s, i) # " " THEN <<s>>
    ELSE LET i == CHOOSE i \in 1..Len(s) :
                      /\ Char(s, i) = " "
                      /\ \A j \in 1..(i - 1) : Char(s, j) # " "
         IN <<SubSeq(s, 1, i - 1)>> \o SplitSp(SubSeq(s, i + 1, Len(s)))

\* the texts the extraction collaborator puts on edges
Titles == {"", "T"}
LongSnippet ==
    "Entropy measures disorder within closed systems energy spread across states during change always"

Snippets == {"", "(x)", "Entropy measures disorder", "heat flows",
             "running inference", LongSnippet}
Explanations == {"", " ", "Entropy measures disorder.", "it helps"}

\* the nodes of a graph handed to run_check
CheckNodes ==
    <<MkNode("a", "Neural Network", "CS", 75000),
      MkNode("c", "Entropy", "Physics", 80000),
      MkNode("n", "NN", "CS", 60000)>>

\* what run_check may look up as an endpoint name: a node name, or the
\* endpoint id itself when no node carries it
EndpointNames == {CheckNodes[i].name : i \in 1..Len(CheckNodes)} \cup {"zz"}

\* _norm on the texts above, computed once
RECURSIVE NormOf(_)
NormOf(S) ==
    IF S = {} THEN <<>>
    ELSE LET x == CHOOSE x \in S : TRUE
         IN (x :> _norm(x)) @@ NormOf(S \ {x})

NormTable == NormOf(Snippets \cup Explanations \cup EndpointNames)

\* the snippets merge_synonyms can return: those of its input edges, and
\* survivors' snippets with up to two losers' snippets appended
MergeSnippets == {e.evidence.snippet : e \in EdgePool}
\* _norm on those texts, computed once
PipeNormTable ==
    LET Joined(S) == {Strip(x) \o "\n" \o Strip(y) : x \in S, y \in MergeSnippets}
        \* the texts of a graph that merge_synonyms hands on to run_check
        PipeTexts ==
            {n.name : n \in NodePool} \cup {n.id : n \in NodePool}
            \cup {e.source : e \in EdgePool} \cup {e.target : e \in EdgePool}
            \cup {Label(i) : i \in 1..(Len(Digits) - 1)}
            \cup MergeSnippets \cup Joined(MergeSnippets) \cup Joined(Joined(MergeSnippets))
    IN
                 [x \in PipeTexts |-> _norm(x)] @@ <<>>

\* _norm(s), looked up when s is one of the texts above
Norm(s) ==
    IF s \in DOMAIN NormTable THEN NormTable[s]
    ELSE IF s \in DOMAIN PipeNormTable THEN PipeNormTable[s]
    ELSE _norm(s)

\* _mentions(name), sn being the normalized snippet
_mentions(name, sn) ==
    IF name = "" THEN FALSE
    ELSE LET parts == SelectSeq(SplitSp(name), LAMBDA q : Len(q) >= 4)
         IN IF parts = <<>> THEN Contains(sn, name)
            ELSE \E i \in 1..Len(parts) : i <= 4 /\ Contains(sn, parts[i])

\* {t for t in sn.split(" ") if len(t) >= 6}
LongTokens(sn) == {t \in Range(SplitSp(sn)) : Len(t) >= 6}

\* LongTokens on the normalized snippets above, computed once
RECURSIVE TokensOf(_)
TokensOf(S) ==
    IF S = {} THEN <<>>
    ELSE LET x == CHOOSE x \in S : TRUE
         IN (x :> LongTokens(x)) @@ TokensOf(S \ {x})

TokenTable == TokensOf({NormTable[x] : x \in Snippets})

Tokens(sn) == IF sn \in DOMAIN TokenTable THEN TokenTable[sn] ELSE LongTokens(sn)

\* the sets list(tokens)[:12] can hold: all tokens when there are at most 12,
\* otherwise the 12 that the set's iteration order (which follows the
\* per-process string hash) puts first
RECURSIVE TokenLists(_)
TokenLists(tokens) ==
    IF Cardinality(tokens) <= 12 THEN {tokens}
    ELSE UNION {TokenLists(tokens \ {t}) : t \in tokens}

\* _mentions on the normalized names and snippets above, computed once
RECURSIVE MentionsOf(_)
MentionsOf(S) ==
    IF S = {} THEN <<>>
    ELSE LET x == CHOOSE x \in S : TRUE
         IN (x :> _mentions(x[1], x[2])) @@ MentionsOf(S \ {x})

MentionTable ==
    MentionsOf({NormTable[x] : x \in EndpointNames} \X {NormTable[x] : x \in Snippets})

\* the tokens of the normalized snippet sn that occur in the normalized
\* explanation exp
Shared(sn, exp) == {t \in Tokens(sn) : Contains(exp, t)}

\* Shared on the normalized snippets and explanations above, computed once
RECURSIVE SharedOf(_)
SharedOf(S) ==
    IF S = {} THEN <<>>
    ELSE LET x == CHOOSE x \in S : TRUE
         IN (x :> Shared(x[1], x[2])) @@ SharedOf(S \ {x})

SharedTable ==
    SharedOf({NormTable[x] : x \in Snippets} \X {NormTable[x] : x \in Explanations})

\* evidence_check; considered[T] is list(T)[:12] for the token set T
evidence_check(edge, source_name, target_name, considered) ==
    LET Mentions(name, sn) ==
            IF <<name, sn>> \in DOMAIN MentionTable THEN MentionTable[<<name, sn>>]
            ELSE _mentions(name, sn)
        SharedTokens(sn, exp) ==
            IF <<sn, exp>> \in DOMAIN SharedTable THEN SharedTable[<<sn, exp>>]
            ELSE Shared(sn, exp)
        \* the tuple (ok, score, reason) that evidence_check returns
        Verdict(ok, score, reason) == [ok |-> ok, score |-> score, reason |-> reason]
        \* the rules on the normalized snippet, names and explanation
        Judge(sn, sname, tname, exp) ==
            IF sn = ""
            THEN Verdict(FALSE, 0, "Empty evidence snippet.")
            ELSE IF ~(Mentions(sname, sn) \/ Mentions(tname, sn))
            THEN Verdict(FALSE, 15000,
                         "Evidence snippet does not mention source/target concept.")
            ELSE Verdict(TRUE,
                         Clamp01(55000 + 7000 * Cardinality(considered[Tokens(sn)]
                                                            \cap SharedTokens(sn, exp))),
                         "Evidence supports the relation.")
    IN
    IF edge.evidence.title = "" \/ edge.evidence.snippet = ""
    THEN Verdict(FALSE, 0, "Missing evidence.title or evidence.snippet.")
    ELSE IF Strip(edge.explanation) = ""
    THEN Verdict(FALSE, 0, "Missing explanation.")
    ELSE Judge(Norm(edge.evidence.snippet), Norm(source_name), Norm(target_name),
               Norm(edge.explanation))

\* node_name.get(id, id) with node_name = {n.id: n.name for n in graph.nodes}
NameOf(nodes, id) ==
    LET at == {i \in 1..Len(nodes) : nodes[i].id = id}
    IN IF at = {} THEN id
       ELSE nodes[CHOOSE i \in at : \A j \in at : j <= i].name

\* the fallback explanation of strict mode
Fallback == "No supported evidence found; marked as unchecked."

\* the relation whitelist with its downgrade: left out
DowngradeNever(e) == e

\* the relation whitelist with its downgrade
Downgrade(e) ==
    IF e.relation \notin RelationType
    THEN [e EXCEPT !.relation = "related_to", !.flags = Append(@, "downgraded")]
    ELSE e

\* the confidence of an edge that passes: the sum, neither halved nor clamped
PassConfidenceSum(old, score) == old + score

\* the confidence of an edge that passes
PassConfidence(old, score) == Clamp01((old + score) \div 2)

\* the confidence of an edge that fails: the score evidence_check returned
FailConfidenceFromScore(old, score) == Clamp01(score)

\* the confidence of an edge that fails; score, although at hand, is not used
FailConfidence(old, score) == Clamp01((old * 45) \div 100)

\* the explanation of an edge that fails: the fallback whatever the mode
StrictExplanationAlways(explanation, strict) ==
    IF explanation = "" THEN Fallback ELSE explanation

\* the explanation of an edge that fails
StrictExplanation(explanation, strict) ==
    IF strict /\ explanation = "" THEN Fallback ELSE explanation

\* the body of run_check's loop for edge e0: the edge as appended to edges,
\* with the tuple evidence_check returned for it
CheckEdge(e0, nodes, strict, considered) ==
    LET \* the loop body from the call of evidence_check on, v being its result
        Judged(e1, e2, v) ==
            [down |-> e1.relation \notin RelationType,
             ok |-> v.ok,
             v |-> v,
             e |-> IF v.ok
                   THEN [e2 EXCEPT !.checked = TRUE,
                                   !.confidence = PassConfidence(@, v.score),
                                   !.check_reason = v.reason]
                   ELSE [e2 EXCEPT !.checked = FALSE,
                                   !.confidence = FailConfidence(@, v.score),
                                   !.check_reason = v.reason,
                                   !.explanation = StrictExplanation(@, strict)]]
        \* the loop body from the whitelist test on, e1 being the edge with its id
        Identified(e1, e2) ==
            Judged(e1, e2, evidence_check(e2, NameOf(nodes, e2.source),
                                          NameOf(nodes, e2.target), considered))
        WithId(e1) == Identified(e1, Downgrade(e1))
    IN WithId(ensure_id(e0))

\* the counters after an edge with outcome r: every edge counts as passed
TallyAllPassed(st, r) ==
    [edges |-> Append(st.edges, r.e),
     verdicts |-> Append(st.verdicts, r.v),
     passed |-> st.passed + 1,
     failed |-> st.failed + (IF r.ok THEN 0 ELSE 1),
     downgraded |-> st.downgraded + (IF r.down THEN 1 ELSE 0),
     checked_total |-> st.checked_total + 1]

\* the counters and the list edges after an edge with outcome r
Tally(st, r) ==
    [edges |-> Append(st.edges, r.e),
     verdicts |-> Append(st.verdicts, r.v),
     passed |-> st.passed + (IF r.ok THEN 1 ELSE 0),
     failed |-> st.failed + (IF r.ok THEN 0 ELSE 1),
     downgraded |-> st.downgraded + (IF r.down THEN 1 ELSE 0),
     checked_total |-> st.checked_total + 1]

\* run_check's loop: the counters and the list edges after the last edge
RECURSIVE CheckLoop(_, _, _, _)
CheckLoop(todo, nodes, strict, considered) ==
    IF todo = <<>>
    THEN [edges |-> <<>>, verdicts |-> <<>>, passed |-> 0, failed |-> 0,
          downgraded |-> 0, checked_total |-> 0]
    ELSE LET n == Len(todo)
         IN Tally(CheckLoop(SubSeq(todo, 1, n - 1), nodes, strict, considered),
                  CheckEdge(todo[n], nodes, strict, considered))

\* the graph run_check returns once its loop has ended in st
Returned(graph, st) ==
    [graph EXCEPT
       !.edges = st.edges,
       !.meta.checker_summary.passed = st.passed,
       !.meta.checker_summary.failed = st.failed,
       !.meta.checker_summary.edges_checked = st.checked_total,
       !.meta.checker_summary.edges_failed = st.failed,
       !.meta.checker_summary.edges_downgraded = st.downgraded]

\* run_check: the graph it returns
run_check(graph, strict, considered) ==
    Returned(graph, CheckLoop(graph.edges, graph.nodes, strict, considered))

\* the ways one process can list the first 12 elements of each token set of T
RECURSIVE Selectors(_)
Selectors(T) ==
    IF T = {} THEN {<<>>}
    ELSE LET x == CHOOSE x \in T : TRUE
         IN {(x :> pick) @@ f : pick \in TokenLists(x), f \in Selectors(T \ {x})}

-----------------------------------------------------------------------------
(* SpecCheck: a merged graph is handed to run_check *)

CheckerSummary ==
    [schema_fixed |-> 0, edges_checked |-> 0, edges_failed |-> 0,
     edges_downgraded |-> 0, dedup_nodes_merged |-> 0, dedup_edges_removed |-> 0,
     conflicts_flagged |-> 0, passed |-> 0, failed |-> 0]

MkCheckEdge(source, target, title, snippet, explanation, confidence) ==
    [MkEdge(source, target, "is_a", confidence, snippet, <<>>)
        EXCEPT !.explanation = explanation, !.evidence.title = title]

\* edges the pipeline may hand to run_check: every short snippet against
\* every explanation at two confidences, edges without a title, edges on a
\* node with a short name and on an id that no node carries, edges whose
\* snippet has 13 tokens of length >= 6, and edges whose relation was
\* assigned outside the five kinds after validation (Edge does not validate
\* assignments)
CheckEdgePool ==
    {MkCheckEdge("a", "c", "T", sn, ex, c) :
        sn \in Snippets \ {"running inference", LongSnippet}, ex \in Explanations,
        c \in {20000, 90000}}
    \cup {MkCheckEdge("a", "c", "", "Entropy measures disorder",
                      "Entropy measures disorder.", c) : c \in {0, 20000}}
    \cup {MkCheckEdge("n", "zz", "T", sn, "it helps", 70000) :
            sn \in {"running inference", "heat flows"}}
    \cup {MkCheckEdge("a", "c", "T", LongSnippet, "Entropy measures disorder.", c) :
            c \in {20000, 90000}}
    \cup {[MkCheckEdge("a", "c", "T", sn, "it helps", 70000)
              EXCEPT !.relation = "causes"] :
            sn \in {"Entropy measures disorder", "heat flows"}}

AddCheckEdge ==
    /\ pc = "unchecked"
    /\ Len(ck_graph.edges) < MaxCheckEdges
    /\ \E e \in CheckEdgePool :
          ck_graph' = [ck_graph EXCEPT !.edges = Append(@, e)]
    /\ UNCHANGED <<pc, ck_out, ck_out2, fixVars, mergeVars, storeVars, apiVars>>

\* the token sets of the snippets of graph
TokenSets(graph) ==
    {Tokens(Norm(graph.edges[i].evidence.snippet)) : i \in 1..Len(graph.edges)}

\* one run of run_check in a process of its own: the mode it ran in, the
\* tuples evidence_check returned in it, and the graph it returned
Outcome(graph, strict, considered) ==
    LET st == CheckLoop(graph.edges, graph.nodes, strict, considered)
    IN [strict |-> strict, verdicts |-> st.verdicts, graph |-> Returned(graph, st)]

RunCheck ==
    /\ pc = "unchecked"
    /\ pc' = "checked"
    /\ \E strict \in BOOLEAN :
       \E considered \in Selectors(TokenSets(ck_graph)) :
          ck_out' = Outcome(ck_graph, strict, considered)
    /\ UNCHANGED <<ck_graph, ck_out2, fixVars, mergeVars, storeVars, apiVars>>

RunCheckAgain ==
    /\ pc = "checked"
    /\ pc' = "checked2"
    /\ \E strict \in BOOLEAN :
       \E considered \in Selectors(TokenSets(ck_graph)) :
          ck_out2' = Outcome(ck_graph, strict, considered)
    /\ UNCHANGED <<ck_graph, ck_out, fixVars, mergeVars, storeVars, apiVars>>

InitCheck ==
    /\ pc = "unchecked"
    /\ ck_graph = [concept |-> "Entropy", nodes |-> CheckNodes, edges |-> <<>>,
                   meta |-> [generated_at |-> "t", version |-> "v1",
                             checker_summary |-> CheckerSummary]]
    /\ ck_out = Idle
    /\ ck_out2 = Idle
    /\ graph_dict = Idle /\ draft0 = Idle /\ fix1 = Idle /\ fix2 = Idle /\ defects = 0
    /\ in_nodes = Idle /\ in_edges = Idle /\ run1 = Idle /\ run2 = Idle
    /\ store = Idle /\ jobs = Idle /\ job = Idle /\ req = Idle

NextCheck == AddCheckEdge \/ RunCheck \/ RunCheckAgain

SpecCheck == InitCheck /\ [][NextCheck]_vars

\* the edge of the input and the edge of the result at position i
InEdge(i) == ck_graph.edges[i]
OutEdge(i) == ck_out.graph.edges[i]

\* the hard rule lets the edge through
HardRuleOk(e) ==
    e.evidence.title # "" /\ e.evidence.snippet # "" /\ Strip(e.explanation) # ""

\* the normalized snippet of e mentions neither endpoint name
NoMention(e) ==
    LET sn == Norm(e.evidence.snippet)
    IN /\ sn # ""
       /\ ~_mentions(Norm(NameOf(ck_graph.nodes, e.source)), sn)
       /\ ~_mentions(Norm(NameOf(ck_graph.nodes, e.target)), sn)

\* C9 (as claimed): an edge whose evidence.title, evidence.snippet or
\* explanation is empty comes out of run_check with checked = false and
\* confidence 0.
C9_EmptyFieldForcesZero ==
    pc \in {"checked", "checked2"} =>
        \A i \in 1..Len(ck_graph.edges) :
            (InEdge(i).evidence.title = "" \/ InEdge(i).evidence.snippet = ""
                \/ InEdge(i).explanation = "")
            => (OutEdge(i).checked = FALSE /\ OutEdge(i).confidence = 0)

\* C10 (as claimed): an edge that satisfies the hard rule but whose normalized
\* snippet mentions neither endpoint name comes out of run_check with
\* checked = false and a confidence of at least 0.15, whatever it was before.
C10_NoMentionFloorsConfidence ==
    pc \in {"checked", "checked2"} =>
        \A i \in 1..Len(ck_graph.edges) :
            (HardRuleOk(InEdge(i)) /\ NoMention(InEdge(i)))
            => (OutEdge(i).checked = FALSE /\ OutEdge(i).confidence >= 15000)

\* the edges of the graph handed to run_check, by position
CheckIdx == 1..Len(ck_graph.edges)

\* the tuple evidence_check returned for the edge at position i
VerdictOf(i) == ck_out.verdicts[i]

Min(a, b) == IF a <= b THEN a ELSE b
Max(a, b) == IF a <= b THEN b ELSE a

\* e has a title and an explanation, its normalized snippet mentions the
\* name of its target, and at least 3 tokens of length >= 6 of the snippet
\* occur in its normalized explanation
MentionsTargetSharesThree(e) ==
    LET sn == Norm(e.evidence.snippet)
    IN /\ e.evidence.title # "" /\ e.explanation # ""
       /\ _mentions(Norm(NameOf(ck_graph.nodes, e.target)), sn)
       /\ Cardinality({t \in LongTokens(sn) : Contains(Norm(e.explanation), t)}) >= 3

\* C11 (as claimed): such an edge comes out of run_check with checked = true
\* and a confidence between its original confidence and 1.0.
C11_PassRaisesConfidence ==
    pc \in {"checked", "checked2"} =>
        \A i \in CheckIdx :
            MentionsTargetSharesThree(InEdge(i))
            => /\ OutEdge(i).checked = TRUE
               /\ InEdge(i).confidence <= OutEdge(i).confidence
               /\ OutEdge(i).confidence <= One

\* C11 (amended): such an edge comes out of run_check with checked = true and
\* the confidence (original + score) / 2, where score is at least 0.55, and
\* at least 0.76 when the snippet has at most 12 tokens of length >= 6; the
\* confidence lies between the original and the score, is at most 1.0, and is
\* at least the original whenever the original is at most 0.55.
C11_PassAveragesConfidence ==
    pc \in {"checked", "checked2"} =>
        \A i \in CheckIdx :
            MentionsTargetSharesThree(InEdge(i))
            => LET old == InEdge(i).confidence
                   new == OutEdge(i).confidence
                   score == VerdictOf(i).score
               IN /\ OutEdge(i).checked = TRUE
                  /\ score >= 55000 /\ score <= One
                  /\ (Cardinality(LongTokens(Norm(InEdge(i).evidence.snippet))) <= 12
                        => score >= 76000)
                  /\ 2 * new <= old + score /\ old + score < 2 * new + 2
                  /\ Min(old, score) <= new /\ new <= Max(old, score)
                  /\ new <= One
                  /\ (old <= 55000 => old <= new)

\* an edge with original confidence 0.9 met the precondition of C11 and came
\* out with a lower confidence
C11_Witness ==
    /\ pc = "checked"
    /\ \E i \in CheckIdx :
          /\ MentionsTargetSharesThree(InEdge(i))
          /\ InEdge(i).confidence = 90000
          /\ OutEdge(i).checked = TRUE
          /\ OutEdge(i).confidence < 90000

\* the reason run_check records for an edge that fails the evidence check,
\* read off the edge: "" when the edge does not fail
FailureReason(e) ==
    IF e.evidence.title = "" \/ e.evidence.snippet = ""
    THEN "Missing evidence.title or evidence.snippet."
    ELSE IF Strip(e.explanation) = "" THEN "Missing explanation."
    ELSE IF Norm(e.evidence.snippet) = "" THEN "Empty evidence snippet."
    ELSE IF NoMention(e)
    THEN "Evidence snippet does not mention source/target concept."
    ELSE ""

\* C12: every edge that fails the evidence check (in particular every edge
\* with an empty snippet) comes out of run_check with checked = false, the
\* failure reason as check_reason, and confidence = clamp(old * 0.45), which
\* is at most 0.45 times the original.
C12_FailScalesConfidence ==
    pc \in {"checked", "checked2"} =>
        \A i \in CheckIdx :
            /\ InEdge(i).evidence.snippet = "" => FailureReason(InEdge(i)) # ""
            /\ FailureReason(InEdge(i)) # ""
               => /\ OutEdge(i).checked = FALSE
                  /\ OutEdge(i).check_reason = FailureReason(InEdge(i))
                  /\ OutEdge(i).confidence = Clamp01((InEdge(i).confidence * 45) \div 100)
                  /\ 100 * OutEdge(i).confidence <= 45 * InEdge(i).confidence

\* an edge with an empty snippet and an edge without endpoint mention, both of
\* confidence 0.2, failed and came out with confidence 0.09
C12_Witness ==
    /\ pc = "checked"
    /\ \E i, j \in CheckIdx :
          /\ InEdge(i).evidence.snippet = "" /\ InEdge(i).confidence = 20000
          /\ OutEdge(i).checked = FALSE /\ OutEdge(i).confidence = 9000
          /\ HardRuleOk(InEdge(j)) /\ NoMention(InEdge(j))
          /\ InEdge(j).confidence = 20000
          /\ OutEdge(j).checked = FALSE /\ OutEdge(j).confidence = 9000

\* the two runs got the same tuples from evidence_check, as they do within
\* one process, and differ in the mode at most
SameVerdicts == pc = "checked2" /\ ck_out.verdicts = ck_out2.verdicts

\* of the two runs, the one in strict mode and the one not in strict mode
StrictRun == IF ck_out.strict THEN ck_out ELSE ck_out2
LaxRun == IF ck_out.strict THEN ck_out2 ELSE ck_out

\* C13 (as claimed): strict mode has no additional effect: run_check with
\* strict = True and with strict = False return the same edges and the same
\* summary counters, also for edges whose explanation is empty.
C13_StrictNoEffect ==
    SameVerdicts => ck_out.graph = ck_out2.graph

\* C13 (amended): strict mode changes the explanation of the edges whose
\* explanation is empty, and nothing else: those edges come out with the
\* fallback sentence in strict mode and with the empty explanation otherwise;
\* confidence, checked, check_reason, flags, relation, every other edge and the
\* summary counters are the same in both modes.
C13_StrictOnlyFillsExplanation ==
    (SameVerdicts /\ ck_out.strict # ck_out2.strict) =>
        /\ StrictRun.graph.nodes = LaxRun.graph.nodes
        /\ StrictRun.graph.meta = LaxRun.graph.meta
        /\ Len(StrictRun.graph.edges) = Len(LaxRun.graph.edges)
        /\ \A i \in CheckIdx :
              LET es == StrictRun.graph.edges[i]
                  el == LaxRun.graph.edges[i]
              IN /\ [es EXCEPT !.explanation = ""] = [el EXCEPT !.explanation = ""]
                 /\ IF InEdge(i).explanation = ""
                    THEN /\ es.explanation = Fallback /\ el.explanation = ""
                         /\ es.checked = FALSE
                    ELSE /\ es.explanation = InEdge(i).explanation
                         /\ el.explanation = InEdge(i).explanation

\* a graph with an edge of empty explanation went through run_check in both
\* modes, and the explanations of that edge differ
C13_Witness ==
    /\ SameVerdicts /\ ck_out.strict /\ ~ck_out2.strict
    /\ \E i \in CheckIdx :
          /\ InEdge(i).explanation = ""
          /\ ck_out.graph.edges[i].explanation # ck_out2.graph.edges[i].explanation

\* C14 (as claimed): evidence_check is deterministic: two evaluations of the
\* same edge with the same endpoint names return the same verdict and the
\* same score, also when the snippet has more than 12 tokens of length >= 6.
C14_SameVerdictAndScore ==
    pc = "checked2" =>
        \A i \in CheckIdx :
            /\ ck_out.verdicts[i].ok = ck_out2.verdicts[i].ok
            /\ ck_out.verdicts[i].score = ck_out2.verdicts[i].score

\* the summary counters of the graph run_check returned
Summary == ck_out.graph.meta.checker_summary

\* C15: run_check gives every edge a verdict: after it returns, the graph has
\* as many edges as before, each with a check_reason and a checked value, and
\* the summary has edges_checked = number of edges, passed + failed =
\* edges_checked, edges_failed = failed, passed = number of edges with
\* checked = true.
C15_EveryEdgeHasVerdict ==
    pc \in {"checked", "checked2"} =>
        /\ Len(ck_out.graph.edges) = Len(ck_graph.edges)
        /\ \A i \in CheckIdx :
              /\ OutEdge(i).check_reason # ""
              /\ OutEdge(i).checked \in BOOLEAN
              /\ OutEdge(i).source = InEdge(i).source
              /\ OutEdge(i).target = InEdge(i).target
        /\ Summary.edges_checked = Len(ck_graph.edges)
        /\ Summary.passed + Summary.failed = Summary.edges_checked
        /\ Summary.edges_failed = Summary.failed
        /\ Summary.passed = Cardinality({i \in CheckIdx : OutEdge(i).checked})

\* a graph with an edge that passes and an edge that fails went through
\* run_check
C15_Witness ==
    /\ pc = "checked"
    /\ Len(ck_graph.edges) = 2
    /\ Summary.passed = 1 /\ Summary.failed = 1
    /\ OutEdge(1).checked /\ ~OutEdge(2).checked

\* C16: after run_check every edge's relation is one of the five kinds; an
\* edge whose relation was outside them has relation related_to and the flag
\* "downgraded" added, edges_downgraded counts these edges, and an edge whose
\* relation was allowed keeps its relation and its flags.
C16_RelationWhitelisted ==
    pc \in {"checked", "checked2"} =>
        /\ \A i \in CheckIdx :
              /\ OutEdge(i).relation \in RelationType
              /\ IF InEdge(i).relation \in RelationType
                 THEN /\ OutEdge(i).relation = InEdge(i).relation
                      /\ OutEdge(i).flags = InEdge(i).flags
                 ELSE /\ OutEdge(i).relation = "related_to"
                      /\ OutEdge(i).flags = Append(InEdge(i).flags, "downgraded")
        /\ Summary.edges_downgraded =
              Cardinality({i \in CheckIdx : InEdge(i).relation \notin RelationType})

\* a graph with an edge of relation "causes" and an edge of an allowed
\* relation went through run_check
C16_Witness ==
    /\ pc = "checked"
    /\ \E i, j \in CheckIdx :
          /\ InEdge(i).relation = "causes" /\ OutEdge(i).relation = "related_to"
          /\ InEdge(j).relation \in RelationType
    /\ Summary.edges_downgraded = 1

-----------------------------------------------------------------------------
(* SpecPipe: generate_graph hands the lists merge_synonyms returned to
   run_check *)

CheckMerged ==
    LET \* the graph after the merge stage: the merged lists and the merge counters
        MergedGraph(run) ==
            [concept |-> "Entropy", nodes |-> run.nodes, edges |-> run.edges,
             meta |-> [generated_at |-> "t", version |-> "v1",
                       checker_summary |->
                           [CheckerSummary EXCEPT
                               !.dedup_nodes_merged = run.stats.nodes_merged,
                               !.dedup_edges_removed = run.stats.edges_removed,
                               !.conflicts_flagged = run.stats.conflicts_flagged]]]
    IN
    /\ pc = "merged"
    /\ pc' = "checked"
    /\ ck_graph' = MergedGraph(run1)
    /\ \E strict \in BOOLEAN :
       \E considered \in Selectors(TokenSets(MergedGraph(run1))) :
          ck_out' = Outcome(MergedGraph(run1), strict, considered)
    /\ UNCHANGED <<ck_out2, fixVars, mergeVars, storeVars, apiVars>>

NextPipe == AddNode \/ AddEdge \/ Merge \/ CheckMerged

SpecPipe == InitMerge /\ [][NextPipe]_vars

\* confidence c is in [0,1]
InUnit(c) == 0 <= c /\ c <= One

\* C17: edge confidence stays in [0,1] through the pipeline: with every input
\* edge confidence in [0,1], every edge confidence is in [0,1] after
\* merge_synonyms (conflict multiplication included) and after run_check
\* (pass and fail branches).
C17_ConfidenceInUnitInterval ==
    (\A i \in 1..Len(in_edges) : InUnit(in_edges[i].confidence)) =>
        /\ pc \in {"merged", "checked"} =>
              \A o \in 1..Len(run1.edges) : InUnit(run1.edges[o].confidence)
        /\ pc = "checked" =>
              \A o \in 1..Len(ck_out.graph.edges) :
                  InUnit(ck_out.graph.edges[o].confidence)

\* two edges in conflict were scaled by the merge; run_check then passed one
\* and failed the other
C17_Witness ==
    /\ pc = "checked"
    /\ run1.stats.conflicts_flagged = 2
    /\ \E i, j \in 1..Len(ck_out.graph.edges) :
          /\ ck_out.graph.edges[i].checked
          /\ ~ck_out.graph.edges[j].checked

-----------------------------------------------------------------------------
(* neo4j_store.py: the database holds one :Concept vertex per id (constraint
   concept_id) and :REL relationships between vertices *)

\* most upsert_graph calls begun in a behaviour
MaxUpserts == 3

\* the requests whose upserts interleave
Jobs == {1, 2}

EmptyStore == [vertices |-> <<>>, rels |-> <<>>]

\* the graphs handed to upsert_graph
MkGraph(concept, version, nodes, edges) ==
    [concept |-> concept, nodes |-> nodes, edges |-> edges,
     meta |-> [generated_at |-> "t", version |-> version,
               checker_summary |-> CheckerSummary]]

\* an edge as run_check leaves it
MkStoreEdge(source, target, relation, confidence) ==
    [MkCheckEdge(source, target, "T", "s", "x", confidence)
        EXCEPT !.relation = relation, !.check_reason = "Evidence supports the relation."]

\* the Core node of concept Entropy, under the ids two generation runs gave it
CoreEntropy == MkNode("core:entropy", "Entropy", "Core", 90000)
Heat == MkNode("physics:heat", "Heat", "Physics", 75000)

\* the graphs the pipeline hands to upsert_graph: concept Entropy, the same
\* from a run that gave the Core node another id, the same with confidence
\* 0.0 and an edge to an id no node carries, the same under another
\* version, and concept Energy, which shares the node Heat
GraphEntropy ==
    MkGraph("Entropy", "v1", <<CoreEntropy, Heat>>,
            <<MkStoreEdge("core:entropy", "physics:heat", "is_a", 70000)>>)
GraphEnergy ==
    LET CoreEnergy == MkNode("core:energy", "Energy", "Core", 90000)
    IN
    MkGraph("Energy", "v1", <<CoreEnergy, Heat>>,
            <<MkStoreEdge("core:energy", "physics:heat", "explains", 70000),
              MkStoreEdge("physics:heat", "core:energy", "used_in", 70000)>>)

StoreGraphs ==
    LET CoreEntropyRerun == MkNode("n1", "entropy ", "Core", 90000)
        GraphEntropyRerun ==
            MkGraph("Entropy", "v1", <<CoreEntropyRerun, Heat>>,
                    <<MkStoreEdge("n1", "physics:heat", "is_a", 70000)>>)
        GraphEntropyLow ==
            MkGraph("Entropy", "v1", <<MkNode("core:entropy", "Entropy", "Core", 0), Heat>>,
                    <<MkStoreEdge("core:entropy", "physics:heat", "is_a", 0),
                      MkStoreEdge("physics:heat", "zz", "explains", 70000)>>)
        GraphEntropyV2 ==
            MkGraph("Entropy", "v2", <<CoreEntropy, Heat>>,
                    <<MkStoreEdge("core:entropy", "physics:heat", "is_a", 70000)>>)
    IN
    {GraphEntropy, GraphEntropyRerun, GraphEntropyLow, GraphEntropyV2, GraphEnergy}

\* x.strip().lower() of every text of the graphs above, computed once
StripLowerTable ==
    LET \* the names and concepts of the graphs above
        StoreTexts ==
            UNION {{g.concept} \cup {g.nodes[i].name : i \in 1..Len(g.nodes)} : g \in StoreGraphs}
    IN
                   [x \in StoreTexts |-> Lower(Strip(x))] @@ <<>>

\* is_root of upsert_graph
is_root(n, graph) ==
    LET \* x.strip().lower()
        StripLower(x) ==
            IF x \in DOMAIN StripLowerTable THEN StripLowerTable[x] ELSE Lower(Strip(x))
    IN
    n.domain = "Core" /\ StripLower(n.name) = StripLower(graph.concept)

\* the node statement when it leaves the confidence of an existing vertex as
\* it was
UpsertVertexKeepConfidence(s, n, graph) ==
    [s EXCEPT !.vertices =
        (n.id :> [id |-> n.id, name |-> n.name, domain |-> n.domain,
                  definition |-> n.definition,
                  confidence |-> IF n.id \in DOMAIN s.vertices
                                 THEN s.vertices[n.id].confidence ELSE n.confidence,
                  version |-> graph.meta.version, concept |-> graph.concept,
                  root |-> is_root(n, graph)]) @@ @]

\* MERGE (c:Concept {id: $id}) SET ...: one autocommit statement
UpsertVertex(s, n, graph) ==
    LET \* the properties that the node statement sets on the vertex
        VertexOf ==
            [id |-> n.id, name |-> n.name, domain |-> n.domain, definition |-> n.definition,
             confidence |-> n.confidence, version |-> graph.meta.version,
             concept |-> graph.concept, root |-> is_root(n, graph)]
    IN
    [s EXCEPT !.vertices = (n.id :> VertexOf) @@ @]

\* the properties MERGE matches a relationship on
RelKey(r) == <<r.source, r.target, r.relation, r.version, r.concept>>

\* the properties of the relationship after the edge statement
RelOf(e, graph) ==
    [source |-> e.source, target |-> e.target, relation |-> e.relation,
     version |-> graph.meta.version, concept |-> graph.concept,
     explanation |-> e.explanation, edge_id |-> e.id, flags |-> e.flags,
     check_reason |-> e.check_reason, evidence_title |-> e.evidence.title,
     evidence_url |-> e.evidence.url, evidence_snippet |-> e.evidence.snippet,
     evidence_domain |-> e.evidence.domain, confidence |-> e.confidence,
     checked |-> e.checked]

\* the edge statement with CREATE in the place of MERGE
UpsertRelCreate(s, e0, graph) ==
    LET e == ensure_id(e0)
    IN IF e.source \notin DOMAIN s.vertices \/ e.target \notin DOMAIN s.vertices
       THEN s
       ELSE [s EXCEPT !.rels = Append(@, RelOf(e, graph))]

\* MATCH (a) MATCH (b) MERGE (a)-[r:REL {...}]->(b) SET ...: one autocommit
\* statement; it does nothing when an endpoint vertex is missing
UpsertRel(s, e0, graph) ==
    LET e == ensure_id(e0)
        r == RelOf(e, graph)
    IN IF e.source \notin DOMAIN s.vertices \/ e.target \notin DOMAIN s.vertices
       THEN s
       ELSE IF \E i \in 1..Len(s.rels) : RelKey(s.rels[i]) = RelKey(r)
       THEN [s EXCEPT !.rels = [i \in 1..Len(s.rels) |->
                                  IF RelKey(s.rels[i]) = RelKey(r) THEN r ELSE s.rels[i]]]
       ELSE [s EXCEPT !.rels = Append(@, r)]

\* the statements upsert_graph runs for graph, in order
Statements(graph) ==
    [i \in 1..(Len(graph.nodes) + Len(graph.edges)) |->
        IF i <= Len(graph.nodes)
        THEN [kind |-> "node", item |-> graph.nodes[i]]
        ELSE [kind |-> "edge", item |-> graph.edges[i - Len(graph.nodes)]]]

\* the store after the first k statements of upsert_graph(graph)
RECURSIVE RunUpTo(_, _, _)
RunUpTo(s, graph, k) ==
    IF k = 0 THEN s
    ELSE LET before == RunUpTo(s, graph, k - 1)
             stmt == Statements(graph)[k]
         IN IF stmt.kind = "node" THEN UpsertVertex(before, stmt.item, graph)
            ELSE UpsertRel(before, stmt.item, graph)

\* upsert_graph run alone
upsert_graph(s, graph) == RunUpTo(s, graph, Len(Statements(graph)))

\* get_node: the Node built from the vertex with this id, or None
get_node(s, node_id) ==
    IF node_id \notin DOMAIN s.vertices THEN JNone
    ELSE LET c == s.vertices[node_id]
         IN [id |-> c.id, name |-> c.name, domain |-> c.domain,
             definition |-> c.definition,
             confidence |-> IF c.confidence = 0 THEN 70000 ELSE c.confidence]

\* depth_i with the upper limit at 2
ClampDepthAtTwo(depth) == IF depth < 0 THEN 0 ELSE IF depth > 2 THEN 2 ELSE depth

\* depth_i = max(0, min(int(depth), 3))
ClampDepth(depth) == IF depth < 0 THEN 0 ELSE IF depth > 3 THEN 3 ELSE depth

\* MATCH (root:Concept {concept: $concept, version: $version, root: true})
Roots(s, concept, version) ==
    {id \in DOMAIN s.vertices :
        /\ s.vertices[id].concept = concept
        /\ s.vertices[id].version = version
        /\ s.vertices[id].root}

\* (root)-[r:REL*0..d]->(n): the paths of at most d relationships that leave
\* root, none of which uses a relationship twice
RECURSIVE Paths(_, _, _)
Paths(s, root, d) ==
    LET \* the vertex a path of relationships (by position in s.rels) ends in
        PathEnd(path) ==
            IF path = <<>> THEN root ELSE s.rels[path[Len(path)]].target
    IN
    IF d = 0 THEN {<<>>}
    ELSE LET shorter == Paths(s, root, d - 1)
         IN shorter \cup
            UNION {{Append(path, i) :
                      i \in {j \in 1..Len(s.rels) :
                                /\ s.rels[j].source = PathEnd(path)
                                /\ j \notin Range(path)}} :
                   path \in shorter}

\* the row the query yields for root: the vertices and the relationships on
\* the paths from root
RowOf(s, root, d) ==
    LET \* Node(...) built from a vertex
        NodeOfVertex(v) ==
            [id |-> v.id, name |-> v.name, domain |-> v.domain, definition |-> v.definition,
             confidence |-> IF v.confidence = 0 THEN 70000 ELSE v.confidence]
        \* Edge(...) built from a relationship
        EdgeOfRel(r) ==
            [id |-> r.edge_id, source |-> r.source, target |-> r.target,
             relation |-> IF r.relation \in RelationType THEN r.relation ELSE "related_to",
             explanation |-> r.explanation,
             evidence |-> [title |-> r.evidence_title, snippet |-> r.evidence_snippet,
                           url |-> r.evidence_url, domain |-> r.evidence_domain],
             confidence |-> IF r.confidence = 0 THEN 70000 ELSE r.confidence,
             checked |-> r.checked, check_reason |-> r.check_reason, flags |-> r.flags]
    IN
    LET paths == Paths(s, root, d)
        used == UNION {Range(path) : path \in paths}
        reached == {root} \cup {s.rels[i].target : i \in used}
    IN [nodes |-> {NodeOfVertex(s.vertices[id]) : id \in reached},
        edges |-> {EdgeOfRel(s.rels[i]) : i \in used}]

\* query_subgraph: what it can return, as sets. There is one row per root
\* vertex and res.single() hands out the first one, in the order the database
\* found the roots
query_subgraph(s, concept, depth, version) ==
    IF Roots(s, concept, version) = {}
    THEN {[nodes |-> {}, edges |-> {}]}
    ELSE {RowOf(s, root, ClampDepth(depth)) : root \in Roots(s, concept, version)}

-----------------------------------------------------------------------------
(* SpecStore: requests upsert graphs into one database; every statement of
   upsert_graph is a transaction of its own, and the statements of two
   requests interleave at the awaits *)

\* request j after its statement at pos: at the next statement, or done with
\* the graph
Advance(j) ==
    IF jobs[j].pos = Len(Statements(jobs[j].graph))
    THEN [jobs EXCEPT ![j] = [graph |-> Idle, pos |-> 0,
                              done |-> Append(jobs[j].done, jobs[j].graph)]]
    ELSE [jobs EXCEPT ![j].pos = @ + 1]

BeginUpsert(j) ==
    LET \* upsert_graph calls begun so far
        Begun ==
            LET n(i) == Len(jobs[i].done) + (IF jobs[i].graph = Idle THEN 0 ELSE 1)
            IN n(1) + n(2)
    IN
    /\ jobs[j].graph = Idle
    /\ Begun < MaxUpserts
    /\ \E g \in StoreGraphs : jobs' = [jobs EXCEPT ![j].graph = g, ![j].pos = 1]
    /\ UNCHANGED <<pc, store, fixVars, mergeVars, checkVars, apiVars>>

UpsertNodeStatement(j) ==
    /\ jobs[j].graph # Idle
    /\ Statements(jobs[j].graph)[jobs[j].pos].kind = "node"
    /\ store' = UpsertVertex(store, Statements(jobs[j].graph)[jobs[j].pos].item,
                             jobs[j].graph)
    /\ jobs' = Advance(j)
    /\ UNCHANGED <<pc, fixVars, mergeVars, checkVars, apiVars>>

UpsertEdgeStatement(j) ==
    /\ jobs[j].graph # Idle
    /\ Statements(jobs[j].graph)[jobs[j].pos].kind = "edge"
    /\ store' = UpsertRel(store, Statements(jobs[j].graph)[jobs[j].pos].item,
                          jobs[j].graph)
    /\ jobs' = Advance(j)
    /\ UNCHANGED <<pc, fixVars, mergeVars, checkVars, apiVars>>

InitStore ==
    /\ pc = "store"
    /\ store = EmptyStore
    /\ jobs = [j \in Jobs |-> [graph |-> Idle, pos |-> 0, done |-> <<>>]]
    /\ graph_dict = Idle /\ draft0 = Idle /\ fix1 = Idle /\ fix2 = Idle /\ defects = 0
    /\ in_nodes = Idle /\ in_edges = Idle /\ run1 = Idle /\ run2 = Idle
    /\ ck_graph = Idle /\ ck_out = Idle /\ ck_out2 = Idle
    /\ job = Idle /\ req = Idle

NextStore ==
    \E j \in Jobs : BeginUpsert(j) \/ UpsertNodeStatement(j) \/ UpsertEdgeStatement(j)

SpecStore == InitStore /\ [][NextStore]_vars

\* request j has upserted exactly the graphs of q, in that order, and is idle
Upserted(j, q) == jobs[j].graph = Idle /\ jobs[j].done = q

\* C18: upsert_graph is idempotent: from any store state, upserting a graph
\* twice leaves the same vertices, relationships and attributes as upserting
\* it once, and duplicates nothing; in particular a request that upserts a
\* graph twice into the empty store leaves what one upsert leaves.
C18_UpsertIdempotent ==
    /\ \A g \in StoreGraphs :
          upsert_graph(upsert_graph(store, g), g) = upsert_graph(store, g)
    /\ \A g \in StoreGraphs :
          (Upserted(1, <<g, g>>) /\ Upserted(2, <<>>))
          => store = upsert_graph(EmptyStore, g)

\* a request has upserted, twice in a row, a graph with an edge into a store
\* that another graph had been upserted into, and the relationship is there
\* once
C18_Witness ==
    /\ Upserted(1, <<GraphEnergy, GraphEntropy, GraphEntropy>>)
    /\ Upserted(2, <<>>)
    /\ Cardinality({i \in 1..Len(store.rels) :
                       RelKey(store.rels[i]) = RelKey(RelOf(ensure_id(GraphEntropy.edges[1]),
                                                            GraphEntropy))}) = 1

\* C19 (as claimed): upserts for different (concept, version) do not
\* interfere: once the upserts of G1 and G2 have both completed, under any
\* interleaving of their statements, query_subgraph for G1's concept and
\* version returns what it returns when only G1 was upserted, also when the
\* graphs share node ids.
C19_NoCrossTalk ==
    \A g1, g2 \in StoreGraphs :
        (/\ Upserted(1, <<g1>>) /\ Upserted(2, <<g2>>)
         /\ <<g1.concept, g1.meta.version>> # <<g2.concept, g2.meta.version>>)
        => \A depth \in 0..3 :
              query_subgraph(store, g1.concept, depth, g1.meta.version)
                = query_subgraph(upsert_graph(EmptyStore, g1), g1.concept, depth,
                                 g1.meta.version)

\* C20 (as claimed): after any sequence of upsert_graph calls the store holds,
\* for every (concept, version), at most one vertex with root = true, also
\* when repeated runs for a concept give the Core node different ids.
C20_AtMostOneRoot ==
    (\A j \in Jobs : jobs[j].graph = Idle) =>
        \A g \in StoreGraphs :
            Cardinality(Roots(store, g.concept, g.meta.version)) <= 1

\* the (concept, version) keys of the graphs upserted
StoreKeys == {<<g.concept, g.meta.version>> : g \in StoreGraphs}

\* the depths a caller can pass; get_graph takes any integer
Depths == -1..5

\* C21 (as claimed): for every store state, every (concept, version) and
\* every depth d, the nodes and edges that query_subgraph returns for depth
\* d + 1 are supersets of those it returns for depth d.
C21_QueryMonotone ==
    pc = "store" =>
        \A k \in StoreKeys : \A d \in Depths :
            \A r0 \in query_subgraph(store, k[1], d, k[2]) :
            \A r1 \in query_subgraph(store, k[1], d + 1, k[2]) :
                r0.nodes \subseteq r1.nodes /\ r0.edges \subseteq r1.edges

\* the vertices at most d outgoing relationships away from root
RECURSIVE Reach(_, _, _)
Reach(s, root, d) ==
    IF d = 0 THEN {root}
    ELSE LET near == Reach(s, root, d - 1)
         IN near \cup {s.rels[i].target : i \in {j \in 1..Len(s.rels) : s.rels[j].source \in near}}

\* the relationships that leave a vertex fewer than d relationships away
\* from root
Within(s, root, d) ==
    IF d = 0 THEN {}
    ELSE {i \in 1..Len(s.rels) : s.rels[i].source \in Reach(s, root, d - 1)}

\* C22: query_subgraph treats a depth below 0 as 0 and a depth above 3 as 3;
\* what it returns is, for a root vertex of (concept, version), exactly the
\* vertices at most depth outgoing relationships away from it and exactly the
\* relationships on those paths, each vertex once; at depth 0 that is the
\* root alone and no relationship.
C22_DepthClampedAndExact ==
    pc = "store" =>
        \A k \in StoreKeys : \A depth \in Depths :
            LET d == IF depth < 0 THEN 0 ELSE IF depth > 3 THEN 3 ELSE depth
            IN \A r \in query_subgraph(store, k[1], depth, k[2]) :
                  \/ Roots(store, k[1], k[2]) = {} /\ r.nodes = {} /\ r.edges = {}
                  \/ \E root \in Roots(store, k[1], k[2]) :
                        /\ {n.id : n \in r.nodes} = Reach(store, root, d)
                        /\ Cardinality(r.nodes) = Cardinality(Reach(store, root, d))
                        /\ {<<e.source, e.target, e.relation>> : e \in r.edges}
                             = {<<store.rels[i].source, store.rels[i].target,
                                  store.rels[i].relation>> : i \in Within(store, root, d)}
                        /\ d = 0 => r.nodes = {n \in r.nodes : n.id = root} /\ r.edges = {}

\* the store holds a path of three relationships from the root of (Entropy,
\* v1) whose last relationship is on no shorter path, and a query with depth
\* 5 returns it while a query with depth 2 does not
C22_Witness ==
    /\ pc = "store"
    /\ \E root \in Roots(store, "Entropy", "v1") :
          /\ Within(store, root, 3) # Within(store, root, 2)
          /\ \E r \in query_subgraph(store, "Entropy", 5, "v1") :
             \E q \in query_subgraph(store, "Entropy", 2, "v1") :
                Cardinality(r.edges) > Cardinality(q.edges)

\* the relationships on the paths that query_subgraph follows from root
Followed(root, depth) == UNION {Range(path) : path \in Paths(store, root, ClampDepth(depth))}

\* C28: every node statement and every edge statement takes effect as one
\* step: whatever statements of other upserts come in between, every vertex a
\* reader finds carries the attributes of one node statement, every
\* relationship those of one edge statement, both endpoints of every
\* relationship are there, and a request that is at its edge statements has
\* written all its nodes.
C28_StatementsAtomic ==
    pc = "store" =>
        /\ \A id \in DOMAIN store.vertices :
              \E g \in StoreGraphs : \E i \in 1..Len(g.nodes) :
                  /\ g.nodes[i].id = id
                  /\ get_node(upsert_graph(EmptyStore, g), id) = get_node(store, id)
                  /\ store.vertices[id].confidence = g.nodes[i].confidence
                  /\ store.vertices[id].concept = g.concept
                  /\ store.vertices[id].version = g.meta.version
                  /\ store.vertices[id].root = is_root(g.nodes[i], g)
        /\ \A k \in 1..Len(store.rels) :
              /\ store.rels[k].source \in DOMAIN store.vertices
              /\ store.rels[k].target \in DOMAIN store.vertices
              /\ \E g \in StoreGraphs : \E i \in 1..Len(g.edges) :
                    store.rels[k] = RelOf(ensure_id(g.edges[i]), g)
        /\ \A j \in Jobs :
              (jobs[j].graph # Idle /\ jobs[j].pos > Len(jobs[j].graph.nodes))
              => \A i \in 1..Len(jobs[j].graph.nodes) :
                    jobs[j].graph.nodes[i].id \in DOMAIN store.vertices

\* two requests are both between statements, one of them at its edges, and
\* the vertex core:entropy that both write holds what the upsert with
\* confidence 0.0 wrote while the other request is still running
C28_Witness ==
    /\ pc = "store"
    /\ jobs[1].graph # Idle /\ jobs[2].graph # Idle
    /\ jobs[1].graph # jobs[2].graph
    /\ jobs[1].pos > Len(jobs[1].graph.nodes)
    /\ jobs[2].pos > 1
    /\ "core:entropy" \in DOMAIN store.vertices
    /\ store.vertices["core:entropy"].confidence = 0
    /\ jobs[2].graph.nodes[1].id = "core:entropy"
    /\ jobs[2].graph.nodes[1].confidence = 0
    /\ Len(store.rels) >= 1

\* C29 (as claimed): every relationship that query_subgraph(concept, depth,
\* version) follows and returns carries that concept and that version.
C29_OnlyOwnRelationships ==
    pc = "store" =>
        \A k \in StoreKeys : \A depth \in Depths :
            \A root \in Roots(store, k[1], k[2]) :
                \A i \in Followed(root, depth) :
                    store.rels[i].concept = k[1] /\ store.rels[i].version = k[2]

\* C30 (as claimed): once upsert_graph(G) has run alone, get_node gives every
\* node of G back as written and query_subgraph for G's concept and version
\* returns nodes and edges of G as written, also with confidence 0.0.
C30_RoundTrip ==
    \A g \in StoreGraphs :
        (Upserted(1, <<g>>) /\ Upserted(2, <<>>)) =>
            /\ \A i \in 1..Len(g.nodes) : get_node(store, g.nodes[i].id) = g.nodes[i]
            /\ \A r \in query_subgraph(store, g.concept, 3, g.meta.version) :
                  /\ r.nodes \subseteq Range(g.nodes)
                  /\ r.edges \subseteq {ensure_id(g.edges[i]) : i \in 1..Len(g.edges)}
                  /\ r.nodes # {}

-----------------------------------------------------------------------------
(* main.py, orchestrator.py, redis_store.py: SpecJob follows one request of  *)
(* either endpoint (generate in the background, expand synchronously)        *)
(* through Orchestrator.generate_graph on the agent path or on the offline   *)
(* path, down to the job record in Redis, the store and the response.        *)

\* RedisStore.create_job: the hash of the job, its log list and its result
create_job(concept) ==
    [status |-> "queued", concept |-> concept, logs |-> <<>>, result |-> Idle]

\* GraphResult.model_validate(graph_dict) on a dict that validates: absent
\* fields take the defaults of the models; None is written ""
model_validate(gd) ==
    LET Opt(d, k) ==
            IF ~Has(d, k) THEN ""
            ELSE IF d[k].t = "str" THEN d[k].v
            ELSE IF d[k].t = "sha"
            THEN "sha1:" \o d[k].source.v \o "|" \o d[k].relation.v \o "|" \o d[k].target.v
            ELSE ""
        Num(d, k, default) == IF Has(d, k) THEN d[k].v ELSE default
        ToNode(x) ==
            [id |-> Opt(x, "id"), name |-> x["name"].v, domain |-> x["domain"].v,
             definition |-> Opt(x, "definition"),
             confidence |-> Num(x, "confidence", 75000)]
        ToEvidence(x) ==
            [title |-> x["title"].v, snippet |-> x["snippet"].v,
             url |-> Opt(x, "url"), domain |-> Opt(x, "domain")]
        ToEdge(x) ==
            [id |-> Opt(x, "id"), source |-> x["source"].v, target |-> x["target"].v,
             relation |-> x["relation"].v, explanation |-> x["explanation"].v,
             evidence |-> ToEvidence(x["evidence"].v),
             confidence |-> Num(x, "confidence", 70000),
             checked |-> IF Has(x, "checked") THEN x["checked"].v ELSE TRUE,
             check_reason |-> Opt(x, "check_reason"),
             flags |-> IF Has(x, "flags")
                       THEN [i \in 1..Len(x["flags"].v) |-> x["flags"].v[i].v]
                       ELSE <<>>]
        ToSummary(x) ==
            [k \in DOMAIN CheckerSummary |-> IF Has(x, k) THEN x[k].v ELSE 0]
        ToMeta(x) ==
            [generated_at |-> x["generated_at"].v, version |-> x["version"].v,
             checker_summary |-> ToSummary(x["checker_summary"].v),
             agent_trace |-> Has(x, "agent_trace") /\ IsDict(x["agent_trace"])]
    IN
    [concept |-> gd["concept"].v,
     nodes |-> [i \in 1..Len(gd["nodes"].v) |-> ToNode(gd["nodes"].v[i].v)],
     edges |-> [i \in 1..Len(gd["edges"].v) |-> ToEdge(gd["edges"].v[i].v)],
     meta |-> ToMeta(gd["meta"].v)]

\* model_dump(mode="json") of nodes, edges and a checker summary, under the
\* keys of the dict that generate_graph builds
model_dump(concept, nodes, edges, version, summary) ==
    LET JOpt(x) == IF x = "" THEN JNone ELSE JStr(x)
        OfNode(x) ==
            JDict([id |-> JStr(x.id), name |-> JStr(x.name), domain |-> JStr(x.domain),
                   definition |-> JOpt(x.definition), confidence |-> JNum(x.confidence)])
        OfEdge(x) ==
            JDict([id |-> JOpt(x.id), source |-> JStr(x.source), target |-> JStr(x.target),
                   relation |-> JStr(x.relation), explanation |-> JStr(x.explanation),
                   evidence |-> JDict([title |-> JStr(x.evidence.title),
                                       snippet |-> JStr(x.evidence.snippet),
                                       url |-> JOpt(x.evidence.url),
                                       domain |-> JOpt(x.evidence.domain)]),
                   confidence |-> JNum(x.confidence),
                   checked |-> [t |-> "bool", v |-> x.checked],
                   check_reason |-> JOpt(x.check_reason),
                   flags |-> JList([i \in 1..Len(x.flags) |-> JStr(x.flags[i])])])
    IN
    [concept |-> JStr(concept),
     nodes |-> JList([i \in 1..Len(nodes) |-> OfNode(nodes[i])]),
     edges |-> JList([i \in 1..Len(edges) |-> OfEdge(edges[i])]),
     meta |-> JDict([generated_at |-> JStr("t"), version |-> JStr(version),
                     checker_summary |->
                         JDict([k \in DOMAIN summary |-> JNum(summary[k])])])]

\* RedisStore.log
Logged(jb, msg) == [jb EXCEPT !.logs = Append(@, msg)]

\* an exception leaves generate_graph: _run_generate catches it, logs it and
\* marks the job failed; expand has no handler, so the framework answers 500
\* and the job record stays as generate_graph left it
Raises(jb, error) ==
    IF req.kind = "generate"
    THEN /\ job' = [Logged(jb, "[Error] " \o error) EXCEPT !.status = "failed"]
         /\ req' = [req EXCEPT !.at = "done", !.error = error]
    ELSE /\ job' = jb
         /\ req' = [req EXCEPT !.at = "done", !.error = error,
                                !.response = [status |-> 500]]

\* POST /api/graph/generate: the job is created, the run is scheduled in the
\* background and the job id is returned
Generate ==
    /\ req.at = "idle"
    /\ \E strict \in BOOLEAN :
          req' = [req EXCEPT !.at = "queued", !.kind = "generate",
                             !.concept = "Entropy", !.strict = strict,
                             !.response = [status |-> 200]]
    /\ job' = create_job("Entropy")
    /\ UNCHANGED <<pc, store, jobs, fixVars, mergeVars, checkVars>>

\* POST /api/graph/expand up to the call of generate_graph
Expand ==
    /\ req.at = "idle"
    /\ \E node_id \in {"physics:heat", "zz"} :
          LET node == get_node(store, node_id)
          IN IF node = JNone
             THEN /\ req' = [req EXCEPT !.at = "done", !.kind = "expand",
                                        !.response = [status |-> 404]]
                  /\ job' = job
             ELSE /\ req' = [req EXCEPT !.at = "queued", !.kind = "expand",
                                        !.concept = node.name, !.strict = TRUE]
                  /\ job' = create_job(node.name)
    /\ UNCHANGED <<pc, store, jobs, fixVars, mergeVars, checkVars>>

\* generate_graph: the first two statements
Plan ==
    /\ req.at = "queued"
    /\ req' = [req EXCEPT !.at = "planned"]
    /\ job' = Logged([job EXCEPT !.status = "running"], "[Planner]")
    /\ UNCHANGED <<pc, store, jobs, fixVars, mergeVars, checkVars>>

\* agent path: CrossDomainGraphAgent.run (plan, retrieve, extract, validate)
\* and the transfer of its log lines to the job
AgentRun ==
    LET \* the JSON graphs the language model may answer with for a concept:
        \* a complete one, one without meta, one whose edge lacks its source,
        \* one whose edge ends at an id no node carries, one without the Core
        \* node, and one whose meta is a string
        LLMDrafts(concept) ==
            LET core == IF concept = "Heat" THEN MkNode("core:heat", "Heat", "Core", 90000)
                        ELSE CoreEntropy
                nn == MkNode("cs:nn", "NN", "CS", 80000)
                snippet == IF concept = "Heat" THEN "heat flows"
                           ELSE "Entropy measures disorder"
                Link(target) ==
                    MkCheckEdge(core.id, target, "T", snippet,
                                "Entropy measures disorder.", 70000)
                Draft(nodes, edges) ==
                    model_dump(concept, nodes, edges, "v1", CheckerSummary)
                good == Draft(<<core, nn>>, <<Link("cs:nn")>>)
            IN {good,
                Del(good, "meta"),
                WithEdge(good, 1, JDict(Del(good["edges"].v[1].v, "source"))),
                Draft(<<core, nn>>, <<Link("cs:nn"), Link("zz")>>),
                Draft(<<nn>>, <<>>),
                Put(good, "meta", JStr("x"))}
        \* _validate_node on draft d, then the agent trace attached to meta
        Validated(d, ok, fx) ==
            LET ok2 == validate_graph(fx.g)
                meta == IF Has(fx.g, "meta") /\ IsDict(fx.g["meta"])
                        THEN fx.g["meta"].v ELSE EmptyDict
                lines == IF ok THEN <<"[Schema] ok">>
                         ELSE IF ok2 THEN <<"[Schema] invalid; applying light_fix">>
                         ELSE <<"[Schema] invalid; applying light_fix",
                                "[Schema] still invalid after light_fix">>
            IN /\ req' = [req EXCEPT
                            !.at = "drafted",
                            !.gd = Put(fx.g, "meta",
                                       JDict(Put(meta, "agent_trace", JDict(EmptyDict)))),
                            !.schema_fixed = fx.fixed,
                            !.light_fixes = IF ok THEN 0 ELSE 1,
                            !.stages = Append(@, "validate")]
               /\ job' = [job EXCEPT !.logs = @ \o lines]
    IN
    /\ req.at = "planned"
    /\ req.provider = "openai_compat"
    /\ \/ Raises(job, "RuntimeError")
       \/ \E d \in LLMDrafts(req.concept) :
             IF validate_graph(d) THEN Validated(d, TRUE, [g |-> d, fixed |-> 0])
             ELSE IF light_fix_raises(d) THEN Raises(job, "ValueError")
             ELSE Validated(d, FALSE, light_fix(d))
    /\ UNCHANGED <<pc, store, jobs, fixVars, mergeVars, checkVars>>

\* offline path: retrieval, graph_from_passages and bridge_discovery; the
\* retrieval tool swallows its own errors
Extract ==
    LET \* _make_node(name=concept, domain="Core", ..., confidence=0.9)
        core == IF req.concept = "Heat" THEN MkNode("core:heat", "Heat", "Core", 90000)
                ELSE CoreEntropy
        \* what the extraction can hand on: the Core node of the concept with
        \* one neighbour, or with a neighbour under two spellings
        Extracts ==
            {[nodes |-> <<core, MkNode("cs:nn", "NN", "CS", 80000)>>,
              edges |-> <<MkCheckEdge(core.id, "cs:nn", "T", "Entropy measures disorder",
                                      "Entropy measures disorder.", 70000)>>],
             [nodes |-> <<core, MkNode("cs:neural-network", "Neural Network", "CS", 80000),
                          MkNode("cs:neural-network-nn", "neural network (NN)", "CS", 60000)>>,
              edges |-> <<MkCheckEdge(core.id, "cs:neural-network", "T", "heat flows",
                                      "it helps", 70000),
                          MkCheckEdge(core.id, "cs:neural-network-nn", "T",
                                      "Entropy measures disorder", "it helps", 60000)>>]}
    IN
    /\ req.at = "planned"
    /\ req.provider # "openai_compat"
    /\ \E ex2 \in Extracts : req' = [req EXCEPT !.at = "extracted", !.ex = ex2]
    /\ job' = Logged(Logged(Logged(job, "[Retrieve]"), "[Extract]"), "[Bridge]")
    /\ UNCHANGED <<pc, store, jobs, fixVars, mergeVars, checkVars>>

\* GraphResult.model_validate(graph_dict) and the schema_fixed counter, on
\* either path
Hydrate ==
    /\ req.at \in {"drafted", "validated"}
    /\ IF validate_graph(req.gd)
       THEN /\ req' = [req EXCEPT
                          !.at = "hydrated",
                          !.graph = [model_validate(req.gd) EXCEPT
                                        !.meta.checker_summary.schema_fixed =
                                            @ + req.schema_fixed]]
            /\ job' = job
       ELSE Raises(job, "ValidationError")
    /\ UNCHANGED <<pc, store, jobs, fixVars, mergeVars, checkVars>>

\* merge_synonyms: on the agent path on the hydrated graph, on the offline
\* path on the lists the extraction returned
MergeStage ==
    /\ \/ req.provider = "openai_compat" /\ req.at = "hydrated"
       \/ req.provider # "openai_compat" /\ req.at = "extracted"
    /\ \E ord \in FlagOrders :
          LET src == IF req.provider = "openai_compat" THEN req.graph ELSE req.ex
              run == merge_synonyms(src.nodes, src.edges, ord)
          IN IF req.provider = "openai_compat"
             THEN req' = [req EXCEPT
                            !.at = "merged",
                            !.stages = Append(@, "merge"),
                            !.graph = [@ EXCEPT
                               !.nodes = run.nodes,
                               !.edges = run.edges,
                               !.meta.checker_summary.dedup_nodes_merged =
                                   @ + run.stats.nodes_merged,
                               !.meta.checker_summary.dedup_edges_removed =
                                   @ + run.stats.edges_removed,
                               !.meta.checker_summary.conflicts_flagged =
                                   @ + run.stats.conflicts_flagged]]
             ELSE req' = [req EXCEPT !.at = "merged", !.stages = Append(@, "merge"),
                                     !.ex = run]
    /\ job' = Logged(job, "[Merge]")
    /\ UNCHANGED <<pc, store, jobs, fixVars, mergeVars, checkVars>>

\* offline path: the dict is built from the merged lists, validated, repaired
\* by light_fix when invalid and validated again; llm_fix returns its
\* argument when the provider is not openai_compat
Validate ==
    LET gd0 == model_dump(req.concept, req.ex.nodes, req.ex.edges, "v1",
                          [CheckerSummary EXCEPT
                              !.dedup_nodes_merged = req.ex.stats.nodes_merged,
                              !.dedup_edges_removed = req.ex.stats.edges_removed,
                              !.conflicts_flagged = req.ex.stats.conflicts_flagged])
        Repaired(fx) ==
            /\ req' = [req EXCEPT !.at = "validated", !.gd = fx.g,
                                  !.schema_fixed = fx.fixed, !.light_fixes = 1,
                                  !.stages = Append(@, "validate")]
            /\ job' = [job EXCEPT !.logs = @ \o
                          (IF validate_graph(fx.g)
                           THEN <<"[Schema] invalid", "[Schema] light_fix applied">>
                           ELSE <<"[Schema] invalid", "[Schema] light_fix applied",
                                  "[Schema] still invalid after light_fix",
                                  "[Schema] still invalid after llm_fix">>)]
        Accepted(gd) ==
            /\ req' = [req EXCEPT !.at = "validated", !.gd = gd,
                                  !.stages = Append(@, "validate")]
            /\ job' = Logged(job, "[Schema] ok")
    IN
    /\ req.provider # "openai_compat"
    /\ req.at = "merged"
    /\ IF validate_graph(gd0) THEN Accepted(gd0)
       ELSE IF light_fix_raises(gd0) THEN Raises(job, "ValueError")
       ELSE Repaired(light_fix(gd0))
    /\ UNCHANGED <<pc, store, jobs, fixVars, mergeVars, checkVars>>

\* run_check on the graph in hand
CheckStage ==
    /\ \/ req.provider = "openai_compat" /\ req.at = "merged"
       \/ req.provider # "openai_compat" /\ req.at = "hydrated"
    /\ \E considered \in Selectors(TokenSets(req.graph)) :
          req' = [req EXCEPT !.at = "checked", !.stages = Append(@, "check"),
                             !.graph = run_check(req.graph, req.strict, considered)]
    /\ job' = Logged(job, "[Check]")
    /\ UNCHANGED <<pc, store, jobs, fixVars, mergeVars, checkVars>>

\* upsert_graph: every statement commits on its own, so a driver error at
\* statement k + 1 leaves the first k statements in the store
Persist ==
    /\ req.at = "checked"
    /\ \E k \in 0..Len(Statements(req.graph)) :
          /\ store' = RunUpTo(store, req.graph, k)
          /\ IF k = Len(Statements(req.graph))
             THEN /\ req' = [req EXCEPT !.at = "persisted", !.stages = Append(@, "upsert")]
                  /\ job' = Logged(job, "[Persist]")
             ELSE Raises(job, "StoreError")
    /\ UNCHANGED <<pc, jobs, fixVars, mergeVars, checkVars>>

\* the summary line, set_result and the final status
Finish ==
    /\ req.at = "persisted"
    /\ req' = [req EXCEPT !.at = IF req.kind = "generate" THEN "done" ELSE "returned"]
    /\ job' = [Logged(job, "[Summary]") EXCEPT !.result = req.graph,
                                                !.status = "succeeded"]
    /\ UNCHANGED <<pc, store, jobs, fixVars, mergeVars, checkVars>>

\* expand after generate_graph has returned: the subgraph of the expanded
\* concept is queried and returned
Respond ==
    /\ req.at = "returned"
    /\ \E row \in query_subgraph(store, req.concept, 2, "v1") :
          req' = [req EXCEPT !.at = "done",
                             !.response = [status |-> 200, nodes |-> row.nodes,
                                           edges |-> row.edges]]
    /\ UNCHANGED <<pc, store, job, jobs, fixVars, mergeVars, checkVars>>

\* GET /api/graph/{concept}: the responses it can give on store s
get_graph(s, concept, depth, version) ==
    {IF row.nodes = {} THEN [status |-> 404]
     ELSE [status |-> 200, nodes |-> row.nodes, edges |-> row.edges] :
        row \in query_subgraph(s, concept, depth, version)}

\* the service is up with one of two provider settings; the database is empty
\* or holds the graph of an earlier request
InitJob ==
    /\ pc = "api"
    /\ store \in {EmptyStore, upsert_graph(EmptyStore, GraphEntropy)}
    /\ job = [status |-> "none", concept |-> "", logs |-> <<>>, result |-> Idle]
    /\ \E provider \in {"openai_compat", "mock"} :
          req = [at |-> "idle", provider |-> provider, kind |-> "", concept |-> "",
                 strict |-> TRUE, ex |-> Idle, gd |-> Idle, schema_fixed |-> 0,
                 light_fixes |-> 0, stages |-> <<>>, graph |-> Idle, error |-> "",
                 response |-> Idle]
    /\ jobs = Idle
    /\ graph_dict = Idle /\ draft0 = Idle /\ fix1 = Idle /\ fix2 = Idle /\ defects = 0
    /\ in_nodes = Idle /\ in_edges = Idle /\ run1 = Idle /\ run2 = Idle
    /\ ck_graph = Idle /\ ck_out = Idle /\ ck_out2 = Idle

NextJob ==
    \/ Generate \/ Expand \/ Plan \/ AgentRun \/ Extract \/ Hydrate \/ MergeStage
    \/ Validate \/ CheckStage \/ Persist \/ Finish \/ Respond

SpecJob == InitJob /\ [][NextJob]_vars

\* the concepts and versions a query can name
QueryKeys == {"Entropy", "Heat", "Energy"} \X {"v1", "v2"}

\* C23: when the store has no root vertex for (concept, version),
\* query_subgraph returns empty node and edge lists, and both callers map the
\* empty result to not found: get_graph answers 404, and expand never answers
\* 200 with an empty graph; get_node of an absent id yields None, which expand
\* answers with 404.
C23_EmptyMapsToNotFound ==
    /\ \A key \in QueryKeys :
          Roots(store, key[1], key[2]) = {}
          => /\ query_subgraph(store, key[1], 2, key[2]) = {[nodes |-> {}, edges |-> {}]}
             /\ get_graph(store, key[1], 2, key[2]) = {[status |-> 404]}
    /\ \A id \in {"physics:heat", "core:entropy", "zz"} :
          id \notin DOMAIN store.vertices => get_node(store, id) = JNone
    /\ (req.kind = "expand" /\ req.at = "done" /\ job.status = "none")
       => req.response = [status |-> 404]
    /\ (req.kind = "expand" /\ req.response # Idle /\ req.response.status = 200)
       => req.response.nodes # {}

\* C24: every request in which an exception leaves generate_graph, on the
\* background generate path or on the synchronous expand path, ends in the
\* same step with the error logged and the job status failed, and what
\* upsert_graph had written before the error stays in the store.
C24_FailureMarksJobFailed ==
    [][(req.error = "" /\ req'.error # "")
       => /\ job'.status = "failed"
          /\ job'.logs # <<>>
          /\ job'.logs[Len(job'.logs)] = "[Error] " \o req'.error
          /\ IF req'.error = "StoreError"
             THEN \E k \in 0..Len(Statements(req.graph)) :
                     store' = RunUpTo(store, req.graph, k)
             ELSE store' = store]_vars

\* the node is a vertex of the store
NodeStored(n) == n.id \in DOMAIN store.vertices
\* the edge is a relationship of the store under its composite key
EdgeStored(e, graph) ==
    \E i \in 1..Len(store.rels) :
       /\ RelKey(store.rels[i]) = RelKey(RelOf(e, graph))
       /\ store.rels[i].edge_id = e.id

\* C25: a job has status succeeded only if every node and every edge of the
\* graph stored as its result is present in the store.
C25_SucceededMeansPersisted ==
    job.status = "succeeded"
    => /\ \A i \in 1..Len(job.result.nodes) : NodeStored(job.result.nodes[i])
       /\ \A i \in 1..Len(job.result.edges) :
             EdgeStored(job.result.edges[i], job.result)

\* the order of the stages
StageOrder == <<"validate", "merge", "check", "upsert">>

\* C26: on both paths of generate_graph the stages run in the order
\* validate/repair, merge_synonyms, run_check, upsert_graph: the stages a run
\* has gone through are always the first ones of that order.
C26_StagesInOrder ==
    /\ Len(req.stages) <= Len(StageOrder)
    /\ req.stages = SubSeq(StageOrder, 1, Len(req.stages))

\* the draft of the run went through light_fix and still does not validate
StillInvalid == req.gd # Idle /\ req.light_fixes = 1 /\ ~validate_graph(req.gd)

\* C27: a run applies light_fix at most once; when the draft is still
\* invalid after it, the job log says so and the run goes on to the later
\* stages: no ValidationError ends the request.
C27_StillInvalidContinues ==
    /\ req.light_fixes <= 1
    /\ StillInvalid => "[Schema] still invalid after light_fix" \in Range(job.logs)
    /\ StillInvalid => req.error = ""
====
